---- MODULE Spec2Model ----
(***************************************************************************)
(* Clip Allocation & Sequencing Engine of PMVGen (src/main.py).            *)
(*                                                                         *)
(* The engine is a set of independent components.  Each component has its  *)
(* own variables and its own specification; the variables of the other     *)
(* components stay at their idle values under that specification:          *)
(*   SpecAlloc  allocate_equalish          (Duration Allocator)            *)
(*   SpecPart   jittered_partition         (Window Partitioner)            *)
(*   SpecSeq    the five _sequence_* functions (Sequencing Algorithms)     *)
(*   SpecKf     get_prev_keyframe_time     (Keyframe Snapper)              *)
(*   SpecPick   ClipAlgorithmPicker        (Algorithm Picker)              *)
(* Random draws (random.randint, random.shuffle, random.sample) are        *)
(* nondeterministic choices over every value the call can return.          *)
(***************************************************************************)
EXTENDS Integers, Sequences, FiniteSets, TLC

VARIABLES
    \* ---- allocate_equalish ----
    a_pc,          \* "start" | "loop" | "done"
    files,         \* number of files; the list `files` is 1..files in list order
    target_sec,    \* argument target_sec
    durations,     \* durations[f], f \in 1..files
    per_max,       \* argument per_max
    alloc,         \* the dict alloc, as a sequence over 1..files
    leftover,      \* local leftover
    progressed,    \* local progressed
    order_i,       \* position of the inner `for f in order` loop
    \* ---- jittered_partition ----
    p_pc,          \* "start" | "loop" | "done"
    p_args,        \* the arguments as passed: [total_len, count, min_each]
    total_len,     \* local total_len (after max(0, .))
    count,         \* local count (after the clamp)
    min_each,      \* local min_each (after max(1, .))
    lens,          \* local lens
    remain,        \* local remain
    left,          \* local left
    \* ---- sequencing algorithms ----
    s_pc,          \* "start" | "carousel" | "waves" | "bursts" | "done"
    s_algo,        \* key of CLIP_SEQUENCE_ALGORITHMS
    per_file,      \* the argument: ordered dict, a sequence of <<path, clips>>
    queues,        \* local queues (ordered dict)
    s_files,       \* waves: the shuffled list `files`
    s_idx,         \* waves: idx
    out,           \* local out: sequence of <<path, start, dur>>
    s_iters,       \* iterations run so far by the `while` loop of the call
    \* ---- keyframe snapper ----
    k_pc,          \* "idle" | "window" | "scan" | "ret"
    k_frames,      \* k_frames[src]: the keyframes the file really has
    keyframe_cache,\* keyframe_cache[src] = [times |-> sorted seq, full_scan |-> BOOLEAN]
    k_src,         \* argument src of the lookup in progress / last lookup
    k_t,           \* argument t
    k_window,      \* local window
    k_probes,      \* probes issued by the lookup in progress / last lookup
    k_ret,         \* value returned by the last lookup
    \* ---- ClipAlgorithmPicker ----
    total_slots,   \* self.total_slots
    unique_quota,  \* self.unique_quota
    unique_deck,   \* self.unique_deck
    unique_index,  \* self.unique_index
    recycle,       \* self.recycle
    current,       \* self._current ("None" or a key)
    algo_key,      \* caller's algo_key: the value of the last current() call
    committed,     \* keys of the committed requests, the first unique_quota of them
    draws,         \* number of _next_from_pool calls so far
    calls,         \* number of current() calls since the last commit()
    pool_run,      \* the keys popped from the recycle pool since its last refill
    \* ---- split_into_big_parts ----
    sp_pc,         \* "start" | "done"
    sp_args,       \* the arguments as passed: <<file_len, parts>>
    sp_res,        \* the list returned: a sequence of <<start, length>>
    \* ---- _clip_guard_limits ----
    g_pc,          \* "start" | "done"
    g_head,        \* the module global CLIP_HEAD_GUARD_SECONDS
    g_tail,        \* the module global CLIP_TAIL_GUARD_SECONDS
    g_duration,    \* argument duration
    g_ret,         \* the tuple returned: <<guard_active, guard_start, guard_end>>
    \* ---- plan_for_file, _plan_for_file_default, plan_for_file_poi ----
    pl_pc,         \* "entry" | "poi" | "poi_call" | "poi_ret" | "default" | "loop" | "call" | "done"
    pl_args,       \* <<source duration, file_alloc, big_parts, small_per_big>>
    pl_algo,       \* argument algo_key of plan_for_file
    pl_windows,    \* local windows of _plan_for_file_default
    pl_idx,        \* windows visited so far by `for idx, (wstart, wlen)`
    pl_clips,      \* local clips of _plan_for_file_default
    pl_ret,        \* the list plan_for_file returns
    pl_planner,    \* the planner whose list was returned: "none" | "poi" | "default"
    pl_samples,    \* timestamps of _extract_audio_energy_profile's samples
    pl_points,     \* local poi_points of plan_for_file_poi: timestamps, sorted
    pl_poi,        \* the list plan_for_file_poi returned
    \* ---- make_pmv_from_files ----
    r_pc,          \* "start" | "validate" | "space" | "alloc" | "sequence" | "mktemp"
                   \* | "extract" | "finally" | "returned" | "raised"
    selected_paths,\* the argument: the sources, each [exists, probe_ok, d]
    target_seconds,\* the argument target_seconds
    r_i,           \* sources visited by the validation loop
    valid_paths,   \* local valid_paths: indices into selected_paths
    r_flags,       \* r_flags[p]: the reasons db_mark_source_problem recorded for p
    effective_target, \* local effective_target
    per_file_alloc,\* local per_file_alloc, aligned with valid_paths
    per_file_clips,\* local per_file_clips: sequence of <<source, clips>>
    sequence,      \* local sequence: <<source, start, dur>>
    tmp_root,      \* the job's temporary directory: "none" | "exists" | "removed"
    r_k,           \* clips visited by the extraction loop
    clips_paths,   \* local clips_paths: the indices of the clips extracted
    r_attempts,    \* the clips extract_clip was called for, in call order
    r_failed,      \* the clips whose extract_clip raised
    r_concat,      \* concat_via_list has been called
    r_error        \* the exception the job ends with, "none" without one

allocVars == <<a_pc, files, target_sec, durations, per_max, alloc, leftover,
               progressed, order_i>>
partVars  == <<p_pc, p_args, total_len, count, min_each, lens, remain, left>>
seqVars   == <<s_pc, s_algo, per_file, queues, s_files, s_idx, out, s_iters>>
kfVars    == <<k_pc, k_frames, keyframe_cache, k_src, k_t, k_window, k_probes, k_ret>>
pickVars  == <<total_slots, unique_quota, unique_deck, unique_index, recycle,
               current, algo_key, committed, draws, calls, pool_run>>
splitVars == <<sp_pc, sp_args, sp_res>>
guardVars == <<g_pc, g_head, g_tail, g_duration, g_ret>>
poiVars   == <<pl_samples, pl_points, pl_poi>>
planVars  == <<pl_pc, pl_args, pl_algo, pl_windows, pl_idx, pl_clips, pl_ret, pl_planner,
               poiVars>>
renderVars == <<r_pc, selected_paths, target_seconds, r_i, valid_paths, r_flags,
                effective_target, per_file_alloc, per_file_clips, sequence, tmp_root,
                r_k, clips_paths, r_attempts, r_failed, r_concat, r_error>>
vars      == <<allocVars, partVars, seqVars, kfVars, pickVars, splitVars, guardVars, planVars, renderVars>>

-----------------------------------------------------------------------------
\* Arithmetic and sequence helpers (Python built-ins min, max, sum).

Min(a, b) == IF a <= b THEN a ELSE b
Max(a, b) == IF a >= b THEN a ELSE b

RECURSIVE SumSeq(_)
SumSeq(s) == IF s = <<>> THEN 0 ELSE Head(s) + SumSeq(Tail(s))

Range(s) == {s[i] : i \in DOMAIN s}

\* Sequences over S of length at most n.
SeqUpTo(S, n) == UNION {[1..k -> S] : k \in 0..n}

\* All orderings of the finite set S, as sequences without repetition.
Perms(S) == {p \in [1..Cardinality(S) -> S] : Range(p) = S}

-----------------------------------------------------------------------------
\* Idle values of each component, used by the other components' specifications.

AllocIdle ==
    /\ a_pc = "idle" /\ files = 0 /\ target_sec = 0 /\ durations = <<>>
    /\ per_max = 0 /\ alloc = <<>> /\ leftover = 0 /\ progressed = FALSE
    /\ order_i = 0

PartIdle ==
    /\ p_pc = "idle" /\ p_args = <<0, 0, 0>> /\ total_len = 0 /\ count = 0
    /\ min_each = 0 /\ lens = <<>> /\ remain = 0 /\ left = 0

SeqIdle ==
    /\ s_pc = "idle" /\ s_algo = "none" /\ per_file = <<>> /\ queues = <<>>
    /\ s_files = <<>> /\ s_idx = 0 /\ out = <<>> /\ s_iters = 0

KfIdle ==
    /\ k_pc = "off" /\ k_frames = <<>> /\ keyframe_cache = <<>> /\ k_src = 0
    /\ k_t = 0 /\ k_window = 0 /\ k_probes = 0 /\ k_ret = 0

PickIdle ==
    /\ total_slots = 0 /\ unique_quota = 0 /\ unique_deck = <<>>
    /\ unique_index = 0 /\ recycle = <<>> /\ current = "off"
    /\ algo_key = "None" /\ committed = <<>> /\ draws = 0 /\ calls = 0
    /\ pool_run = <<>>

SplitIdle == sp_pc = "idle" /\ sp_args = <<0, 0>> /\ sp_res = <<>>

GuardIdle ==
    /\ g_pc = "idle" /\ g_head = 0 /\ g_tail = 0 /\ g_duration = 0
    /\ g_ret = <<FALSE, 0, 0>>

PlanIdle ==
    /\ pl_pc = "idle" /\ pl_args = <<0, 0, 0, 0>> /\ pl_algo = "none"
    /\ pl_windows = <<>> /\ pl_idx = 0 /\ pl_clips = <<>> /\ pl_ret = <<>>
    /\ pl_planner = "none" /\ pl_samples = {} /\ pl_points = <<>> /\ pl_poi = <<>>

RenderIdle ==
    /\ r_pc = "idle" /\ selected_paths = <<>> /\ target_seconds = 0 /\ r_i = 0
    /\ valid_paths = <<>> /\ r_flags = <<>> /\ effective_target = 0
    /\ per_file_alloc = <<>> /\ per_file_clips = <<>> /\ sequence = <<>>
    /\ tmp_root = "none" /\ r_k = 0 /\ clips_paths = <<>> /\ r_attempts = <<>>
    /\ r_failed = {} /\ r_concat = FALSE /\ r_error = "none"

-----------------------------------------------------------------------------
\* allocate_equalish(target_sec, files, durations, per_min, per_max)
\* (per_min is accepted and never read by the function).

MaxFiles  == 3
MaxDur    == 3
MaxTarget == 6
MaxPerMax == 2

otherThanAlloc == <<partVars, seqVars, kfVars, pickVars, splitVars, guardVars, planVars, renderVars>>

Zeros(n) == [f \in 1..n |-> 0]

\* total_dur = sum(durations.get(f, 0) for f in files)
total_dur == SumSeq(durations)

\* ideal = max(1, target_sec // n)
ideal == Max(1, target_sec \div files)

\* ideal_clamped = min(per_max, ideal)
ideal_clamped == Min(per_max, ideal)

\* max_total = min(target_sec, total_dur)
max_total == Min(target_sec, total_dur)

\* The bound of the redistribution test: min(per_max, dur), with the duration forgotten.
AllocCapNoDur(f) == per_max

\* The bound of the redistribution test: min(per_max, dur).
AllocCap(f) == Min(per_max, durations[f])

\* order = sorted(files, key=duration, reverse=True): descending by duration;
\* Python's sort is stable, also with reverse=True, so ties keep list order.
OrderPos(f) ==
    1 + Cardinality({g \in 1..files :
                        \/ durations[g] > durations[f]
                        \/ (durations[g] = durations[f] /\ g < f)})

\* An order that visits the longest source only.
order_longest_only == [k \in 1..files |-> CHOOSE f \in 1..files : OrderPos(f) = 1]

order == [k \in 1..files |-> CHOOSE f \in 1..files : OrderPos(f) = k]

AllocInit ==
    /\ a_pc = "start"
    /\ files \in 0..MaxFiles
    /\ durations \in [1..files -> 0..MaxDur]
    /\ target_sec \in 0..MaxTarget
    /\ per_max \in 0..MaxPerMax
    /\ alloc = <<>>
    /\ leftover = 0
    /\ progressed = FALSE
    /\ order_i = 0

\* Lines 3583-3606: the early returns, the initial equal split, leftover.
AllocStart ==
    /\ a_pc = "start"
    /\ IF files = 0 \/ target_sec <= 0 \/ total_dur <= 0
       THEN /\ alloc' = Zeros(files)
            /\ a_pc' = "done"
            /\ UNCHANGED <<leftover, order_i>>
       ELSE LET first == [f \in 1..files |-> Min(ideal_clamped, durations[f])]
                lo    == max_total - SumSeq(first)
            IN  /\ alloc' = first
                /\ leftover' = lo
                /\ a_pc' = IF lo <= 0 THEN "done" ELSE "loop"
                /\ order_i' = IF lo <= 0 THEN order_i ELSE 1
    /\ progressed' = FALSE
    /\ UNCHANGED <<files, target_sec, durations, per_max>>
    /\ UNCHANGED otherThanAlloc

\* Lines 3610-3619: one iteration of `for f in order`.
AllocVisit ==
    /\ a_pc = "loop"
    /\ order_i <= files
    /\ LET f == order[order_i] IN
       IF alloc[f] >= AllocCap(f)
       THEN /\ order_i' = order_i + 1
            /\ UNCHANGED <<alloc, leftover, progressed, a_pc>>
       ELSE /\ alloc' = [alloc EXCEPT ![f] = @ + 1]
            /\ leftover' = leftover - 1
            /\ progressed' = TRUE
            /\ IF leftover - 1 <= 0
               THEN a_pc' = "done" /\ order_i' = order_i
               ELSE a_pc' = "loop" /\ order_i' = order_i + 1
    /\ UNCHANGED <<files, target_sec, durations, per_max>>
    /\ UNCHANGED otherThanAlloc

\* Lines 3608-3609, 3620-3623: the end of a pass over `order`.
AllocPassEnd ==
    /\ a_pc = "loop"
    /\ order_i = files + 1
    /\ IF progressed
       THEN a_pc' = "loop" /\ order_i' = 1
       ELSE a_pc' = "done" /\ order_i' = order_i
    /\ progressed' = FALSE
    /\ UNCHANGED <<files, target_sec, durations, per_max, alloc, leftover>>
    /\ UNCHANGED otherThanAlloc

InitAlloc == AllocInit /\ PartIdle /\ SeqIdle /\ KfIdle /\ PickIdle /\ SplitIdle /\ GuardIdle /\ PlanIdle /\ RenderIdle

NextAlloc == AllocStart \/ AllocVisit \/ AllocPassEnd

SpecAlloc == InitAlloc /\ [][NextAlloc]_vars

\* C1: when allocate_equalish returns, sum(allocated) <= min(target, sum(durations)),
\* for every target (also one smaller than the number of sources).
AllocSumWithinTarget ==
    a_pc = "done" => SumSeq(alloc) <= Min(target_sec, SumSeq(durations))

\* C2: after the initial split and after every redistribution step, every
\* allocated[s] is an integer with 0 <= allocated[s] <= min(per_max, duration[s]).
AllocWithinCap ==
    a_pc \in {"loop", "done"} =>
        \A f \in 1..files :
            /\ alloc[f] \in Int
            /\ 0 <= alloc[f]
            /\ alloc[f] <= Min(per_max, durations[f])

\* C2 witness: the redistribution has raised a source from its initial share
\* to its cap while another source stays below the initial ideal share.
AllocWithinCapWitness ==
    /\ a_pc = "done"
    /\ \E f \in 1..files :
          /\ alloc[f] > Min(ideal_clamped, durations[f])
          /\ alloc[f] = Min(per_max, durations[f])
    /\ \E g \in 1..files : durations[g] < ideal_clamped /\ alloc[g] = durations[g]

\* The redistribution loop is entered: no early return, and seconds are left
\* after the initial split.
AllocLoopEntered ==
    /\ files > 0 /\ target_sec > 0 /\ total_dur > 0
    /\ max_total > SumSeq([f \in 1..files |-> Min(ideal_clamped, durations[f])])

\* Every source holds min(per_max, duration).
AllocAllAtCap == \A f \in 1..files : alloc[f] = Min(per_max, durations[f])

\* What decreases with every step of the loop: the seconds to place (one
\* more while the running pass has placed one), then the sources still to
\* visit in the pass.
AllocVariant ==
    (leftover + (IF progressed THEN 1 ELSE 0)) * (files + 1) + (files + 1 - order_i)

\* C21: the redistribution loop of allocate_equalish terminates (every step
\* of it decreases a natural number and a step is always possible), and
\* when it has ended the allocation sums to min(target, sum of durations)
\* or every source is at min(per_max, duration); seconds stay unplaced only
\* when no source can take one.
AllocRedistributes ==
    /\ [][(a_pc = "loop" /\ a_pc' = "loop")
             => (AllocVariant' < AllocVariant /\ AllocVariant' >= 0)]_vars
    /\ [][a_pc = "loop" => a_pc' \in {"loop", "done"}]_vars
    /\ [](a_pc = "loop" => (order_i \in 1..(files + 1) /\ leftover > 0))
    /\ []((a_pc = "done" /\ AllocLoopEntered) =>
             \/ SumSeq(alloc) = Min(target_sec, SumSeq(durations))
             \/ AllocAllAtCap)
    /\ []((a_pc = "done" /\ leftover > 0) => AllocAllAtCap)
    /\ []((a_pc = "done" /\ AllocLoopEntered) =>
             leftover = Min(target_sec, SumSeq(durations)) - SumSeq(alloc))

\* C21 witness: the loop has run and has ended with every second placed,
\* a source raised above its initial share and a source below its cap.
AllocRedistributesWitness ==
    /\ a_pc = "done"
    /\ AllocLoopEntered
    /\ leftover = 0
    /\ SumSeq(alloc) = Min(target_sec, SumSeq(durations))
    /\ ~AllocAllAtCap
    /\ \E f \in 1..files : alloc[f] > Min(ideal_clamped, durations[f])

-----------------------------------------------------------------------------
\* jittered_partition(total_len, count, min_each)

MaxTotal   == 9
MaxCount   == 4
MaxMinEach == 3

otherThanPart == <<allocVars, seqVars, kfVars, pickVars, splitVars, guardVars, planVars, renderVars>>

\* max_count = max(1, total_len // min_each) if total_len > 0 else 1
max_count(total, each) == IF total > 0 THEN Max(1, total \div each) ELSE 1

\* base = max(min_each, total_len // count) if count > 0 else total_len
base == IF count > 0 THEN Max(min_each, total_len \div count) ELSE total_len

\* jitter = max(1, int(base * 0.3)); int(b * 0.3) = (3 * b) // 10 for every
\* b in 0..100000 in IEEE double arithmetic.
jitter == Max(1, (3 * base) \div 10)

\* low = max(min_each, base - jitter), with the floor min_each forgotten.
lowNoFloor == base - jitter

\* low = max(min_each, base - jitter)
low == Max(min_each, base - jitter)

\* upper_cap = remain - (left - 1) * min_each
upper_cap == remain - (left - 1) * min_each

\* high = max(low, min(base + jitter, upper_cap))
high == Max(low, Min(base + jitter, upper_cap))

\* The values x can take in one iteration of the loop (lines 3658-3668);
\* rng.randint(low, high) returns any integer of low..high.
PartChoices ==
    IF left = 1
    THEN {remain}
    ELSE IF high < low
         THEN {Max(min_each, Min(upper_cap, low))}
         ELSE low..high

PartInit ==
    /\ p_pc = "start"
    /\ p_args \in (0..MaxTotal) \X (1..MaxCount) \X (1..MaxMinEach)
    /\ total_len = 0 /\ count = 0 /\ min_each = 0
    /\ lens = <<>> /\ remain = 0 /\ left = 0

\* Lines 3643-3654: the clamps of the arguments and the loop's initial state.
PartStart ==
    /\ p_pc = "start"
    /\ LET t == Max(0, p_args[1])
           m == Max(1, p_args[3])
           c == Max(1, Min(p_args[2], max_count(t, m)))
       IN  /\ total_len' = t
           /\ min_each' = m
           /\ count' = c
           /\ remain' = t
           /\ left' = c
    /\ lens' = <<>>
    /\ p_pc' = "loop"
    /\ UNCHANGED p_args
    /\ UNCHANGED otherThanPart

\* Lines 3657-3670: one iteration of `for _ in range(count)`.
PartDraw ==
    /\ p_pc = "loop"
    /\ Len(lens) < count
    /\ \E x \in PartChoices :
          /\ lens' = Append(lens, x)
          /\ remain' = remain - x
    /\ UNCHANGED <<p_pc, p_args, total_len, count, min_each, left>>
    /\ UNCHANGED otherThanPart

\* Lines 3671-3672: `left -= 1` stands after the loop, then `return lens`.
PartReturn ==
    /\ p_pc = "loop"
    /\ Len(lens) = count
    /\ left' = left - 1
    /\ p_pc' = "done"
    /\ UNCHANGED <<p_args, total_len, count, min_each, lens, remain>>
    /\ UNCHANGED otherThanPart

InitPart == AllocIdle /\ PartInit /\ SeqIdle /\ KfIdle /\ PickIdle /\ SplitIdle /\ GuardIdle /\ PlanIdle /\ RenderIdle

NextPart == PartStart \/ PartDraw \/ PartReturn

SpecPart == InitPart /\ [][NextPart]_vars

\* C3: for total >= min_each >= 1 and count >= 1 the returned lengths sum
\* exactly to total, whatever the random draws.
PartSumExact ==
    (p_pc = "done" /\ p_args[1] >= p_args[3] /\ p_args[3] >= 1 /\ p_args[2] >= 1)
        => SumSeq(lens) = p_args[1]

\* C4: for total >= min_each >= 1 every returned length is >= min_each and the
\* number of lengths is min(count, max(1, total // min_each)), which is
\* <= max(1, total // min_each).
PartMinAndCount ==
    (p_pc = "done" /\ p_args[1] >= p_args[3] /\ p_args[3] >= 1)
        => /\ \A i \in 1..Len(lens) : lens[i] >= p_args[3]
           /\ Len(lens) = Min(p_args[2], Max(1, p_args[1] \div p_args[3]))
           /\ Len(lens) <= Max(1, p_args[1] \div p_args[3])

\* C4 witness: a call whose count was clamped down and that still returned
\* several lengths, one of them exactly min_each > 1.
PartMinAndCountWitness ==
    /\ p_pc = "done"
    /\ p_args[1] >= p_args[3]
    /\ p_args[3] > 1
    /\ p_args[2] > Len(lens)
    /\ Len(lens) >= 2
    /\ \E i \in 1..Len(lens) : lens[i] = p_args[3]

-----------------------------------------------------------------------------
\* The sequencing algorithms: _sequence_carousel, _sequence_group_waves,
\* _sequence_burst_shuffle, _sequence_poi, _sequence_strata.
\*
\* A clip is <<start, dur>>.  The argument per_file (a dict in insertion
\* order) is the sequence of the sources' clip lists: source p is the p-th key.
\* An ordered dict of queues is a sequence of <<path, clips>>.

MaxSrc        == 3
MaxTotalClips == 3

\* The clips the inputs are built from: two share a start, two share a duration.
ClipSet == {<<0, 1>>, <<0, 2>>, <<1, 1>>}

otherThanSeq == <<allocVars, partVars, kfVars, pickVars, splitVars, guardVars, planVars, renderVars>>

\* The keys of CLIP_SEQUENCE_ALGORITHMS.
CLIP_SEQUENCE_ALGORITHMS == {"carousel", "waves", "bursts", "poi", "strata"}

\* Every per_file of n sources holding at most `budget` clips in all.
RECURSIVE ClipQueues(_, _)
ClipQueues(n, budget) ==
    IF n = 0
    THEN {<<>>}
    ELSE UNION {{Append(q, l) : q \in ClipQueues(n - 1, budget - Len(l))} :
                    l \in SeqUpTo(ClipSet, budget)}

\* clips.pop(0) taken from the wrong end: <<last clip, the clips before it>>.
PopLast(clips) == <<clips[Len(clips)], SubSeq(clips, 1, Len(clips) - 1)>>

\* clips.pop(0): <<the popped clip, the clips left>>.
Pop0(clips) == <<Head(clips), Tail(clips)>>

\* `not clips` tested one clip too early.
ExhaustedEarly(clips) == Len(clips) <= 1

\* `if not clips`: the source has no clip left.
Exhausted(clips) == clips = <<>>

\* _clone_clip_queue: copies of the non-empty lists, in dict order.
RECURSIVE CloneFrom(_, _)
CloneFrom(pf, p) ==
    IF p > Len(pf)
    THEN <<>>
    ELSE (IF pf[p] = <<>> THEN <<>> ELSE << <<p, pf[p]>> >>) \o CloneFrom(pf, p + 1)

clone_clip_queue(pf) == CloneFrom(pf, 1)

\* _clone_clip_queue applied to an ordered dict of queues (the tail call of waves).
CloneQueues(q) == SelectSeq(q, LAMBDA e : e[2] # <<>>)

\* A pass that visits the keys last to first.
RECURSIVE PassOutReversed(_)
PassOutReversed(q) ==
    IF q = <<>>
    THEN <<>>
    ELSE PassOutReversed(Tail(q))
         \o (IF q[1][2] = <<>> THEN <<>> ELSE << <<q[1][1], q[1][2][1][1], q[1][2][1][2]>> >>)

\* One pass `for path in list(queues.keys())`: the clips it appends to out.
RECURSIVE PassOut(_)
PassOut(q) ==
    IF q = <<>>
    THEN <<>>
    ELSE LET path  == q[1][1]
             clips == q[1][2]
         IN  (IF Exhausted(clips)
              THEN <<>>
              ELSE << <<path, Pop0(clips)[1][1], Pop0(clips)[1][2]>> >>)
             \o PassOut(Tail(q))

\* One pass `for path in list(queues.keys())`: the queues it leaves.
RECURSIVE PassRest(_)
PassRest(q) ==
    IF q = <<>>
    THEN <<>>
    ELSE LET path  == q[1][1]
             clips == q[1][2]
         IN  (IF Exhausted(clips)
              THEN <<>>
              ELSE IF Exhausted(Pop0(clips)[2])
                   THEN <<>>
                   ELSE << <<path, Pop0(clips)[2]>> >>)
             \o PassRest(Tail(q))

\* `while queues:` (carousel) and `while group_files:` (waves): passes until
\* every queue is gone.
RECURSIVE RoundRobin(_)
RoundRobin(q) == IF q = <<>> THEN <<>> ELSE PassOut(q) \o RoundRobin(PassRest(q))

\* _sequence_carousel called as a whole on an ordered dict of queues (the tail
\* call of waves, line 3937): clone, then passes until every queue is gone.
sequence_carousel(q) == RoundRobin(CloneQueues(q))

\* A sort that leaves the list as it is.
InsertAtEnd(sorted, x) == Append(sorted, x)

\* sorted(clips, key=lambda x: x[0]): Python's sort is stable, so a clip goes
\* after every clip whose start is <= its own.
InsertByStart(sorted, x) ==
    LET k == Cardinality({i \in 1..Len(sorted) : sorted[i][1] <= x[1]})
    IN  SubSeq(sorted, 1, k) \o <<x>> \o SubSeq(sorted, k + 1, Len(sorted))

RECURSIVE SortByStart(_)
SortByStart(clips) ==
    IF clips = <<>>
    THEN <<>>
    ELSE InsertByStart(SortByStart(SubSeq(clips, 1, Len(clips) - 1)),
                       clips[Len(clips)])

\* for start, dur in <clips>: out.append((path, start, dur))
Tagged(path, clips) == [i \in 1..Len(clips) |-> <<path, clips[i][1], clips[i][2]>>]

RECURSIVE SortedBlocksFrom(_, _)
SortedBlocksFrom(pf, p) ==
    IF p > Len(pf)
    THEN <<>>
    ELSE Tagged(p, SortByStart(pf[p])) \o SortedBlocksFrom(pf, p + 1)

sequence_poi(pf) == SortedBlocksFrom(pf, 1)

sequence_strata(pf) == SortedBlocksFrom(pf, 1)

SeqInit ==
    /\ s_pc = "start"
    /\ s_algo \in CLIP_SEQUENCE_ALGORITHMS
    /\ per_file \in UNION {ClipQueues(n, MaxTotalClips) : n \in 0..MaxSrc}
    /\ queues = <<>>
    /\ s_files = <<>>
    /\ s_idx = 0
    /\ out = <<>>
    /\ s_iters = 0

\* Lines 3892-3893: queues = _clone_clip_queue(per_file); out = [].
SeqCarousel ==
    /\ s_pc = "start"
    /\ s_algo = "carousel"
    /\ queues' = clone_clip_queue(per_file)
    /\ out' = <<>>
    /\ s_pc' = "carousel"
    /\ UNCHANGED <<s_algo, per_file, s_files, s_idx, s_iters>>
    /\ UNCHANGED otherThanSeq

\* Lines 3894-3903: one iteration of `while queues:`, a whole pass of the
\* inner `for path in list(queues.keys())`.
CarouselPass ==
    /\ s_pc = "carousel"
    /\ queues # <<>>
    /\ out' = out \o PassOut(queues)
    /\ queues' = PassRest(queues)
    /\ s_iters' = s_iters + 1
    /\ UNCHANGED <<s_pc, s_algo, per_file, s_files, s_idx>>
    /\ UNCHANGED otherThanSeq

\* Lines 3894, 3904: `queues` is empty: the loop ends and out is returned.
CarouselFinish ==
    /\ s_pc = "carousel"
    /\ queues = <<>>
    /\ s_pc' = "done"
    /\ UNCHANGED <<s_algo, per_file, queues, s_files, s_idx, out, s_iters>>
    /\ UNCHANGED otherThanSeq

SeqPoi ==
    /\ s_pc = "start"
    /\ s_algo = "poi"
    /\ out' = sequence_poi(per_file)
    /\ s_pc' = "done"
    /\ UNCHANGED <<s_algo, per_file, queues, s_files, s_idx, s_iters>>
    /\ UNCHANGED otherThanSeq

SeqStrata ==
    /\ s_pc = "start"
    /\ s_algo = "strata"
    /\ out' = sequence_strata(per_file)
    /\ s_pc' = "done"
    /\ UNCHANGED <<s_algo, per_file, queues, s_files, s_idx, s_iters>>
    /\ UNCHANGED otherThanSeq

\* The keys of an ordered dict of queues.
Keys(q) == [i \in 1..Len(q) |-> q[i][1]]

\* queues[f]
QueueOf(q, f) == (CHOOSE e \in Range(q) : e[1] = f)[2]

\* Lines 3908-3913: clone, files = list(queues.keys()), random.shuffle(files).
WavesShuffle ==
    /\ s_pc = "start"
    /\ s_algo = "waves"
    /\ queues' = clone_clip_queue(per_file)
    /\ s_files' \in Perms(Range(Keys(clone_clip_queue(per_file))))
    /\ s_idx' = 0
    /\ out' = <<>>
    /\ s_pc' = "waves"
    /\ UNCHANGED <<s_algo, per_file, s_iters>>
    /\ UNCHANGED otherThanSeq

\* Group sizes drawn from 1 up.
group_sizes_from_one(remaining) == 1..Min(4, remaining)

\* Lines 3916-3920: group_size is 1 when one file remains, and otherwise
\* random.randint(2, min(4, remaining)).
group_sizes(remaining) == IF remaining = 1 THEN {1} ELSE 2..Min(4, remaining)

\* Lines 3913-3934: one iteration of `while idx < total`: the group is cut
\* from files, its queues are popped from `queues` and drained round-robin.
WavesGroup ==
    /\ s_pc = "waves"
    /\ s_idx < Len(s_files)
    /\ LET remaining == Len(s_files) - s_idx IN
       \E group_size \in group_sizes(remaining) :
          LET group_files == SubSeq(s_files, s_idx + 1, s_idx + group_size)
              members     == SelectSeq(group_files,
                                 LAMBDA f : /\ f \in Range(Keys(queues))
                                            /\ QueueOf(queues, f) # <<>>)
              group_map   == [i \in 1..Len(members) |->
                                 <<members[i], QueueOf(queues, members[i])>>]
          IN  /\ s_idx' = s_idx + group_size
              /\ queues' = SelectSeq(queues, LAMBDA e : e[1] \notin Range(members))
              /\ out' = out \o RoundRobin(group_map)
    /\ s_iters' = s_iters + 1
    /\ UNCHANGED <<s_pc, s_algo, per_file, s_files>>
    /\ UNCHANGED otherThanSeq

\* Lines 3935-3938: what is left in `queues` goes through the carousel.
WavesFinish ==
    /\ s_pc = "waves"
    /\ s_idx >= Len(s_files)
    /\ out' = IF queues # <<>> THEN out \o sequence_carousel(queues) ELSE out
    /\ s_pc' = "done"
    /\ UNCHANGED <<s_algo, per_file, queues, s_files, s_idx, s_iters>>
    /\ UNCHANGED otherThanSeq

\* Lines 3942-3943: queues = _clone_clip_queue(per_file).
BurstStart ==
    /\ s_pc = "start"
    /\ s_algo = "bursts"
    /\ queues' = clone_clip_queue(per_file)
    /\ out' = <<>>
    /\ s_pc' = "bursts"
    /\ UNCHANGED <<s_algo, per_file, s_files, s_idx, s_iters>>
    /\ UNCHANGED otherThanSeq

\* candidates = [(f, len(clips)) for f, clips in queues.items() if clips]
candidates(q) ==
    LET c == SelectSeq(q, LAMBDA e : e[2] # <<>>)
    IN  [i \in 1..Len(c) |-> <<c[i][1], Len(c[i][2])>>]

\* Lines 3950-3956: the first candidate whose running count reaches pick,
\* candidates[0] when none does.
Chosen(cand, pick) ==
    LET acc(i) == SumSeq([j \in 1..i |-> cand[j][2]])
        hit    == {i \in 1..Len(cand) : pick <= acc(i)}
    IN  IF hit = {}
        THEN cand[1][1]
        ELSE cand[CHOOSE i \in hit : \A j \in hit : i <= j][1]

\* A burst that pops nothing.
PopNone(clips, burst) == <<(<<>>), clips>>

\* Lines 3958-3962: `burst` pops from the chosen queue, stopping when it is
\* empty: <<the clips popped, the clips left>>.
RECURSIVE PopBurst(_, _)
PopBurst(clips, burst) ==
    IF burst = 0 \/ clips = <<>>
    THEN <<(<<>>), clips>>
    ELSE LET r == PopBurst(Pop0(clips)[2], burst - 1)
         IN  <<(<<Pop0(clips)[1]>>) \o r[1], r[2]>>

\* Lines 3944-3964: one iteration of `while True` that finds a candidate.
BurstStep ==
    /\ s_pc = "bursts"
    /\ candidates(queues) # <<>>
    /\ LET cand  == candidates(queues)
           total == SumSeq([i \in 1..Len(cand) |-> cand[i][2]])
       IN  \E pick \in 1..Max(1, total) :
              LET chosen == Chosen(cand, pick) IN
              \E burst \in 1..Max(1, Min(3, Len(QueueOf(queues, chosen)))) :
                 LET r == PopBurst(QueueOf(queues, chosen), burst) IN
                 /\ out' = out \o Tagged(chosen, r[1])
                 /\ queues' =
                       IF r[2] = <<>>
                       THEN SelectSeq(queues, LAMBDA e : e[1] # chosen)
                       ELSE [i \in 1..Len(queues) |->
                               IF queues[i][1] = chosen
                               THEN <<chosen, r[2]>>
                               ELSE queues[i]]
    /\ s_iters' = s_iters + 1
    /\ UNCHANGED <<s_pc, s_algo, per_file, s_files, s_idx>>
    /\ UNCHANGED otherThanSeq

\* Lines 3945-3947, 3965: no candidate is left: break and return out.
BurstFinish ==
    /\ s_pc = "bursts"
    /\ candidates(queues) = <<>>
    /\ s_pc' = "done"
    /\ UNCHANGED <<s_algo, per_file, queues, s_files, s_idx, out, s_iters>>
    /\ UNCHANGED otherThanSeq

\* Inputs for the waves alone: up to MaxWaveSrc sources, each with no clip,
\* one clip or two.
MaxWaveSrc == 4

WaveLists == {<<>>, << <<0, 1>> >>, << <<0, 1>>, <<1, 1>> >>}

WavesInit ==
    /\ s_pc = "start"
    /\ s_algo = "waves"
    /\ per_file \in UNION {[1..n -> WaveLists] : n \in 0..MaxWaveSrc}
    /\ queues = <<>>
    /\ s_files = <<>>
    /\ s_idx = 0
    /\ out = <<>>
    /\ s_iters = 0

InitWaves == AllocIdle /\ PartIdle /\ WavesInit /\ KfIdle /\ PickIdle /\ SplitIdle /\ GuardIdle /\ PlanIdle /\ RenderIdle

NextWaves == WavesShuffle \/ WavesGroup \/ WavesFinish

SpecWaves == InitWaves /\ [][NextWaves]_vars

InitSeq == AllocIdle /\ PartIdle /\ SeqInit /\ KfIdle /\ PickIdle /\ SplitIdle /\ GuardIdle /\ PlanIdle /\ RenderIdle

NextSeq ==
    \/ SeqCarousel
    \/ CarouselPass
    \/ CarouselFinish
    \/ SeqPoi
    \/ SeqStrata
    \/ WavesShuffle
    \/ WavesGroup
    \/ WavesFinish
    \/ BurstStart
    \/ BurstStep
    \/ BurstFinish

SpecSeq == InitSeq /\ [][NextSeq]_vars

\* The clips of the input queues, each tagged with its source.
InputTagged ==
    UNION {{<<p, per_file[p][i][1], per_file[p][i][2]>> : i \in DOMAIN per_file[p]} :
              p \in DOMAIN per_file}

\* How often the tagged clip x occurs in the input queues.
InputCount(x) ==
    IF x[1] \in DOMAIN per_file
    THEN Cardinality({i \in DOMAIN per_file[x[1]] : per_file[x[1]][i] = <<x[2], x[3]>>})
    ELSE 0

\* How often x occurs in the sequence sq.
CountIn(sq, x) == Cardinality({i \in DOMAIN sq : sq[i] = x})

\* The clips of source p in the output, in output order.
ProjectOut(p) ==
    LET sel == SelectSeq(out, LAMBDA e : e[1] = p)
    IN  [i \in 1..Len(sel) |-> <<sel[i][2], sel[i][3]>>]

\* Every per-source list of the input is sorted by start time.
InputSorted ==
    \A p \in DOMAIN per_file :
        \A i, j \in DOMAIN per_file[p] : i < j => per_file[p][i][1] <= per_file[p][j][1]

\* C5: for each of the five algorithms the output holds every input clip
\* exactly as often as the input queues do and no other clip, so the total
\* duration is that of the input.
SeqIsReordering ==
    s_pc = "done" =>
        /\ \A x \in Range(out) \cup InputTagged : CountIn(out, x) = InputCount(x)
        /\ SumSeq([i \in DOMAIN out |-> out[i][3]])
             = SumSeq([p \in DOMAIN per_file |->
                          SumSeq([i \in DOMAIN per_file[p] |-> per_file[p][i][2]])])

\* C5 witness: bursts has interleaved two sources, one of them with an
\* unsorted list.
SeqIsReorderingWitness ==
    /\ s_pc = "done"
    /\ s_algo = "bursts"
    /\ \E p \in DOMAIN per_file : ~(\A i, j \in DOMAIN per_file[p] :
                                      i < j => per_file[p][i][1] <= per_file[p][j][1])
    /\ \E i, j, k \in DOMAIN out : i < j /\ j < k /\ out[i][1] = out[k][1]
                                    /\ out[i][1] # out[j][1]

\* C6: when every input list is sorted by start time, the clips of each source
\* appear in the output in exactly the order of that source's input list.
SeqKeepsSourceOrder ==
    (s_pc = "done" /\ InputSorted) =>
        \A p \in DOMAIN per_file : ProjectOut(p) = per_file[p]

\* C6 witness: waves has interleaved sorted lists, one of them with two clips
\* of different start times.
SeqKeepsSourceOrderWitness ==
    /\ s_pc = "done"
    /\ s_algo = "waves"
    /\ InputSorted
    /\ \E p \in DOMAIN per_file : Len(per_file[p]) >= 2
                                   /\ per_file[p][1][1] < per_file[p][2][1]
    /\ \E i, j, k \in DOMAIN out : i < j /\ j < k /\ out[i][1] = out[k][1]
                                    /\ out[i][1] # out[j][1]

\* C22: poi and strata return the concatenation, in the source order given,
\* of each source's clips sorted by start time (the clips of a source are
\* contiguous), and both return the same sequence for the same input.
BlocksSortedByStart ==
    (s_pc = "done" /\ s_algo \in {"poi", "strata"}) =>
        /\ \A i, j \in DOMAIN out : i < j => out[i][1] <= out[j][1]
        /\ \A i, j \in DOMAIN out :
              (i < j /\ out[i][1] = out[j][1]) => out[i][2] <= out[j][2]
        /\ \A x \in Range(out) \cup InputTagged : CountIn(out, x) = InputCount(x)
        /\ out = sequence_poi(per_file)
        /\ out = sequence_strata(per_file)

\* C22 witness: strata has returned on two sources with clips, the first
\* with a list given out of start order.
BlocksSortedByStartWitness ==
    /\ s_pc = "done"
    /\ s_algo = "strata"
    /\ Len(per_file) >= 2
    /\ Len(per_file[1]) = 2 /\ per_file[1][1][1] > per_file[1][2][1]
    /\ per_file[2] # <<>>
    /\ Len(out) = 3

\* The sources that have clips.
WithClips == {p \in DOMAIN per_file : per_file[p] # <<>>}

\* Where the round-robin interleaving of the sources g[1], ..., g[n] puts
\* the i-th clip of g[m].
BlockPos(g, m, i) ==
    SumSeq([k \in DOMAIN g |-> Min(Len(per_file[g[k]]), i - 1)])
    + Cardinality({k \in DOMAIN g : k < m /\ Len(per_file[g[k]]) >= i})
    + 1

\* C23: the waves build the output from cluster blocks appended one after
\* the other; the clusters are consecutive slices of one shuffle of the
\* sources that have clips, so every source is in exactly one; a block is
\* the round-robin interleaving of all the clips of its members; a cluster
\* has 2 to 4 sources, or is the single source left at the end.
WavesClusterBlocks ==
    /\ []((s_algo = "waves" /\ s_pc \in {"waves", "done"}) =>
             /\ Len(s_files) = Cardinality(WithClips)
             /\ Range(s_files) = WithClips
             /\ s_idx \in 0..Len(s_files))
    /\ [][(s_algo = "waves" /\ s_pc = "waves" /\ s_pc' = "waves") =>
             LET n == s_idx' - s_idx
                 g == SubSeq(s_files, s_idx + 1, s_idx')
                 B == SubSeq(out', Len(out) + 1, Len(out'))
             IN  /\ s_files' = s_files
                 /\ n \in 2..4 \/ (n = 1 /\ s_idx' = Len(s_files))
                 /\ SubSeq(out', 1, Len(out)) = out
                 /\ Len(B) = SumSeq([k \in DOMAIN g |-> Len(per_file[g[k]])])
                 /\ \A m \in DOMAIN g : \A i \in DOMAIN per_file[g[m]] :
                       B[BlockPos(g, m, i)] = <<g[m], per_file[g[m]][i][1], per_file[g[m]][i][2]>>]_vars
    /\ [][(s_algo = "waves" /\ s_pc = "waves" /\ s_pc' = "done") =>
             (s_idx = Len(s_files) /\ out' = out)]_vars

\* C23 witness: four sources with clips went out as two clusters of two, the
\* first of them interleaving a source of two clips with a source of one.
WavesClusterBlocksWitness ==
    /\ s_pc = "done"
    /\ s_algo = "waves"
    /\ Len(s_files) = 4
    /\ Len(out) = 5
    /\ out[1][1] = out[3][1]
    /\ {out[1][1], out[2][1]} = {s_files[1], s_files[2]}
    /\ {out[4][1], out[5][1]} = {s_files[3], s_files[4]}
    /\ out[1][1] # out[2][1]

\* The clips still queued.
QueuedClips == SumSeq([i \in DOMAIN queues |-> Len(queues[i][2])])

\* What is left to do for the loop in progress: the clips still queued
\* (carousel, bursts), the shuffled files not yet grouped (waves).
LoopVariant == IF s_pc = "waves" THEN Len(s_files) - s_idx ELSE QueuedClips

\* The stages of a call: before the loop, in the loop, returned.
StageOf(pc) == IF pc = "start" THEN 0 ELSE IF pc = "done" THEN 2 ELSE 1

\* C18: each of the five algorithms terminates on every input: a call only
\* moves from its start to its loop to its return, every iteration of a
\* loop strictly decreases a natural number (what is left to do), and so a
\* loop runs at most one iteration for each input clip; on an input with no
\* clips the sequence returned is empty.
SeqTerminates ==
    /\ [][StageOf(s_pc') >= StageOf(s_pc)]_vars
    /\ [][(s_pc \in {"carousel", "waves", "bursts"} /\ s_pc' = s_pc)
             => (LoopVariant' < LoopVariant /\ LoopVariant' >= 0)]_vars
    /\ [](s_iters <= SumSeq([p \in DOMAIN per_file |-> Len(per_file[p])]))
    /\ []((s_pc = "done" /\ InputTagged = {}) => out = <<>>)

\* C18 witness: the carousel has returned on three sources, one with an empty
\* list and one that ran out of clips a pass before another.
SeqTerminatesWitness ==
    /\ s_pc = "done"
    /\ s_algo = "carousel"
    /\ \E p, q, r \in DOMAIN per_file :
          /\ per_file[p] = <<>>
          /\ Len(per_file[q]) = 1
          /\ Len(per_file[r]) = 2
    /\ Len(out) = 3

\* The position in the round-robin interleaving of the i-th clip of source p:
\* after the earlier clips of every source and the i-th clips of the sources
\* before p.
RoundRobinPos(p, i) ==
    SumSeq([q \in DOMAIN per_file |-> Min(Len(per_file[q]), i - 1)])
    + Cardinality({q \in DOMAIN per_file : q < p /\ Len(per_file[q]) >= i})
    + 1

\* C20: the carousel's output is the round-robin interleaving of the queues:
\* the i-th clips of the sources that have at least i clips are consecutive,
\* in source order, before any (i+1)-th clip.
CarouselIsRoundRobin ==
    (s_pc = "done" /\ s_algo = "carousel") =>
        /\ Len(out) = SumSeq([q \in DOMAIN per_file |-> Len(per_file[q])])
        /\ \A p \in DOMAIN per_file : \A i \in DOMAIN per_file[p] :
              out[RoundRobinPos(p, i)] = <<p, per_file[p][i][1], per_file[p][i][2]>>

\* C20 witness: the carousel on {A: [a1, a2], B: [b1]} has returned
\* [a1, b1, a2].
CarouselIsRoundRobinWitness ==
    /\ s_pc = "done"
    /\ s_algo = "carousel"
    /\ Len(per_file) = 2
    /\ Len(per_file[1]) = 2
    /\ Len(per_file[2]) = 1
    /\ per_file[1][1] # per_file[1][2]
    /\ [i \in DOMAIN out |-> out[i][1]] = <<1, 2, 1>>

-----------------------------------------------------------------------------
\* The Keyframe Snapper of make_pmv_from_files: keyframe_cache, _cache_entry,
\* _insert_keyframes, _find_prev, _probe_keyframes, get_prev_keyframe_time.
\*
\* Times are counted in ticks of 0.05 s, the smallest time step of the code
\* (the minimal probe interval of lines 5186 and 5212).

TicksPerSec == 20

KEYFRAME_INITIAL_WINDOW == 10 * TicksPerSec
\* A window limit far above the one of the code.
KEYFRAME_MAX_WINDOW_WIDE == 5000 * TicksPerSec
KEYFRAME_MAX_WINDOW     == 300 * TicksPerSec
\* 0.25 s
KEYFRAME_LOOKAHEAD      == TicksPerSec \div 4

otherThanKf == <<allocVars, partVars, seqVars, pickVars, splitVars, guardVars, planVars, renderVars>>

\* The sources of the job.
KfSources == {"a", "b"}

\* The timestamps a source may have a keyframe at: 4 s, 30.2 s, 250 s.
KfTimes == {4 * TicksPerSec, 30 * TicksPerSec + 4, 250 * TicksPerSec}

\* The clip starts looked up: float(start) of an integer start: 3 s, 30 s, 400 s.
LookupTimes == {3 * TicksPerSec, 30 * TicksPerSec, 400 * TicksPerSec}

\* bisect_left taken as bisect_right.
bisect_left_after(times, x) == Cardinality({i \in DOMAIN times : times[i] <= x})

\* bisect_left(times, x) on a sorted list: the number of elements < x.
bisect_left(times, x) == Cardinality({i \in DOMAIN times : times[i] < x})

\* bisect_right(times, x) on a sorted list: the number of elements <= x.
bisect_right(times, x) == Cardinality({i \in DOMAIN times : times[i] <= x})

\* times.insert(idx, val), idx counted from 0.
ListInsert(times, idx, val) ==
    SubSeq(times, 1, idx) \o <<val>> \o SubSeq(times, idx + 1, Len(times))

\* sorted(found): the ascending list of a set of timestamps.
RECURSIVE SortedList(_)
SortedList(S) ==
    IF S = {}
    THEN <<>>
    ELSE LET m == CHOOSE x \in S : \A y \in S : x <= y
         IN  <<m>> \o SortedList(S \ {m})

\* _insert_keyframes(entry, values): each value goes to its bisect_left
\* position unless the element there is the same timestamp.
RECURSIVE insert_keyframes(_, _)
insert_keyframes(times, values) ==
    IF values = <<>>
    THEN times
    ELSE LET val == Head(values)
             idx == bisect_left(times, val)
         IN  insert_keyframes(
                 IF idx >= Len(times) \/ times[idx + 1] # val
                 THEN ListInsert(times, idx, val)
                 ELSE times,
                 Tail(values))

\* _find_prev with `return times[idx - 1]` replaced by the first element.
find_prev_first(times, t) == IF times = <<>> THEN <<>> ELSE <<times[1]>>

\* _find_prev(entry, t): <<>> stands for None, <<x>> for the float x.
find_prev(times, t) ==
    IF times = <<>>
    THEN <<>>
    ELSE LET idx == bisect_right(times, t)
         IN  IF idx # 0 THEN <<times[idx]>> ELSE <<times[1]>>

\* A full scan that leaves the flag as it is.
mark_nothing(entry) == entry

\* Line 5226: entry["full_scan"] = True.
mark_full_scan(entry) == [entry EXCEPT !.full_scan = TRUE]

\* _cache_entry(src): keyframe_cache.setdefault(src, {"times": [], "full_scan": False})
cache_entry(cache, src) ==
    IF src \in DOMAIN cache THEN cache[src] ELSE [times |-> <<>>, full_scan |-> FALSE]

\* The cache with the entry of src set to e.
WithEntry(cache, src, e) ==
    [x \in DOMAIN cache \cup {src} |-> IF x = src THEN e ELSE cache[x]]

\* _probe_keyframes(src, start, end): the keyframes of the file inside the
\* interval read, or fewer (none when ffprobe fails).
probe_keyframes(src, start, end) ==
    LET interval_start == Max(0, start)
        interval_end   == Max(interval_start + 1, end)
    IN  {SortedList(found) :
            found \in SUBSET {x \in k_frames[src] :
                                 interval_start <= x /\ x <= interval_end}}

\* _probe_keyframes(src, None, None): the keyframes of the whole file, or fewer.
probe_all_keyframes(src) == {SortedList(found) : found \in SUBSET k_frames[src]}

KfInit ==
    /\ k_pc = "idle"
    /\ k_frames \in [KfSources -> SUBSET KfTimes]
    /\ keyframe_cache = [x \in {} |-> 0]
    /\ k_src = "a"
    /\ k_t = 0
    /\ k_window = 0
    /\ k_probes = 0
    /\ k_ret = 0

\* Lines 5203-5209: the call, the cache lookup and its early return.
KfLookup(src, t) ==
    /\ k_pc \in {"idle", "ret", "merged"}
    /\ k_src' = src
    /\ k_t' = t
    /\ k_probes' = 0
    /\ LET entry  == cache_entry(keyframe_cache, src)
           cached == find_prev(entry.times, t)
       IN  /\ keyframe_cache' = WithEntry(keyframe_cache, src, entry)
           /\ IF cached # <<>>
              THEN /\ k_ret' = cached[1]
                   /\ k_pc' = "ret"
                   /\ UNCHANGED k_window
              ELSE /\ k_window' = KEYFRAME_INITIAL_WINDOW
                   /\ k_pc' = "window"
                   /\ UNCHANGED k_ret
    /\ UNCHANGED k_frames
    /\ UNCHANGED otherThanKf

\* Lines 5210-5221: one iteration of `while window <= KEYFRAME_MAX_WINDOW`.
KfProbeWindow ==
    /\ k_pc = "window"
    /\ LET entry        == keyframe_cache[k_src]
           window_start == Max(0, k_t - k_window)
           window_end   == Max(k_t + KEYFRAME_LOOKAHEAD, window_start + 1)
       IN  \E new_vals \in probe_keyframes(k_src, window_start, window_end) :
              LET times  == insert_keyframes(entry.times, new_vals)
                  cached == find_prev(times, k_t)
              IN  /\ keyframe_cache' =
                        WithEntry(keyframe_cache, k_src, [entry EXCEPT !.times = times])
                  /\ IF cached # <<>>
                     THEN /\ k_ret' = cached[1]
                          /\ k_pc' = "ret"
                          /\ UNCHANGED k_window
                     ELSE IF window_start <= 0
                          THEN /\ k_pc' = "scan"
                               /\ UNCHANGED <<k_window, k_ret>>
                          ELSE /\ k_window' = 2 * k_window
                               /\ k_pc' = IF 2 * k_window <= KEYFRAME_MAX_WINDOW
                                          THEN "window" ELSE "scan"
                               /\ UNCHANGED k_ret
    /\ k_probes' = k_probes + 1
    /\ UNCHANGED <<k_frames, k_src, k_t>>
    /\ UNCHANGED otherThanKf

\* Lines 5223-5231: nothing was found and the file has not been scanned yet:
\* one full scan, then the lookup again.
KfFullScan ==
    /\ k_pc = "scan"
    /\ ~keyframe_cache[k_src].full_scan
    /\ \E full_vals \in probe_all_keyframes(k_src) :
          LET entry  == keyframe_cache[k_src]
              times  == insert_keyframes(entry.times, full_vals)
              cached == find_prev(times, k_t)
          IN  /\ keyframe_cache' =
                    WithEntry(keyframe_cache, k_src,
                              mark_full_scan([entry EXCEPT !.times = times]))
              /\ k_ret' = IF cached # <<>> THEN cached[1] ELSE k_t
    /\ k_probes' = k_probes + 1
    /\ k_pc' = "ret"
    /\ UNCHANGED <<k_frames, k_src, k_t, k_window>>
    /\ UNCHANGED otherThanKf

\* Lines 5223, 5231: nothing was found and the file was scanned before: return t.
KfGiveUp ==
    /\ k_pc = "scan"
    /\ keyframe_cache[k_src].full_scan
    /\ k_ret' = k_t
    /\ k_pc' = "ret"
    /\ UNCHANGED <<k_frames, keyframe_cache, k_src, k_t, k_window, k_probes>>
    /\ UNCHANGED otherThanKf

\* The longest list of values merged at once.
MaxMerge == 2

\* sorted(found): the ascending lists of at most MaxMerge timestamps of the
\* source, a timestamp reported twice included.
MergeValues(src) ==
    {v \in SeqUpTo(k_frames[src], MaxMerge) :
        \A i, j \in DOMAIN v : i < j => v[i] <= v[j]}

\* Lines 5153-5164: _insert_keyframes(_cache_entry(src), values) on its own,
\* between two lookups, whatever the entry holds.
KfMerge(src, values) ==
    /\ k_pc \in {"idle", "ret", "merged"}
    /\ LET entry == cache_entry(keyframe_cache, src)
       IN  keyframe_cache' =
              WithEntry(keyframe_cache, src,
                        [entry EXCEPT !.times = insert_keyframes(entry.times, values)])
    /\ k_src' = src
    /\ k_pc' = "merged"
    /\ UNCHANGED <<k_frames, k_t, k_window, k_probes, k_ret>>
    /\ UNCHANGED otherThanKf

InitKf == AllocIdle /\ PartIdle /\ SeqIdle /\ KfInit /\ PickIdle /\ SplitIdle /\ GuardIdle /\ PlanIdle /\ RenderIdle

NextKf ==
    \/ \E src \in KfSources, t \in LookupTimes : KfLookup(src, t)
    \/ KfProbeWindow
    \/ KfFullScan
    \/ KfGiveUp

SpecKf == InitKf /\ [][NextKf]_vars

\* The lookups together with merges of any probe result into any entry.
NextKfCache ==
    \/ NextKf
    \/ \E src \in KfSources : \E values \in MergeValues(src) : KfMerge(src, values)

SpecKfCache == InitKf /\ [][NextKfCache]_vars

\* C7: whatever the earlier lookups and probes have cached, a lookup of t
\* returns a value <= t.
KfReturnsAtMostT == k_pc = "ret" => k_ret <= k_t

\* The cached timestamps of src that are <= t.
CachedUpTo(src, t) ==
    IF src \in DOMAIN keyframe_cache
    THEN {x \in Range(keyframe_cache[src].times) : x <= t}
    ELSE {}

\* C8: a lookup that finds a cached keyframe <= t returns the largest such
\* keyframe, issues no probe and leaves the cache as it is.
KfCacheHitNoProbe ==
    [][(k_pc \in {"idle", "ret"} /\ CachedUpTo(k_src', k_t') # {})
          => /\ k_pc' = "ret"
             /\ k_ret' \in CachedUpTo(k_src', k_t')
             /\ \A x \in CachedUpTo(k_src', k_t') : x <= k_ret'
             /\ k_probes' = 0
             /\ keyframe_cache' = keyframe_cache]_vars

\* C8 witness: a lookup answered from a cache that holds several keyframes
\* <= t, without any probe.
KfCacheHitNoProbeWitness ==
    /\ k_pc = "ret"
    /\ k_probes = 0
    /\ k_ret \in CachedUpTo(k_src, k_t)
    /\ \E x \in CachedUpTo(k_src, k_t) : x < k_ret

\* The step is a full-source scan of k_src.
IsFullScan == k_pc = "scan" /\ k_probes' = k_probes + 1

\* C24: a full-source scan is issued only for a source not scanned before
\* in the job and only after a window probe of the same lookup, with the
\* lookup still unanswered; it sets full_scan for the source; full_scan
\* never goes back to false and is set by nothing else.  So a source is
\* scanned at most once.
KfFullScanOnce ==
    /\ [][IsFullScan =>
             /\ ~keyframe_cache[k_src].full_scan
             /\ keyframe_cache'[k_src].full_scan
             /\ k_probes >= 1
             /\ keyframe_cache[k_src].times = <<>>]_vars
    /\ [][\A src \in DOMAIN keyframe_cache :
             keyframe_cache[src].full_scan =>
                (src \in DOMAIN keyframe_cache' /\ keyframe_cache'[src].full_scan)]_vars
    /\ [][\A src \in DOMAIN keyframe_cache' :
             (keyframe_cache'[src].full_scan
                /\ ~(src \in DOMAIN keyframe_cache /\ keyframe_cache[src].full_scan))
                => (IsFullScan /\ src = k_src)]_vars

\* C24 witness: a lookup of t = 3 s on a source scanned earlier in the job,
\* with no keyframe known, has returned after its one window probe and
\* without a second scan.
KfFullScanOnceWitness ==
    /\ k_pc = "ret"
    /\ k_t = 3 * TicksPerSec
    /\ k_probes = 1
    /\ keyframe_cache[k_src].full_scan
    /\ keyframe_cache[k_src].times = <<>>

\* The windows of the probes: 10 s doubled while <= 300 s.
KfWindows == {10 * TicksPerSec, 20 * TicksPerSec, 40 * TicksPerSec,
              80 * TicksPerSec, 160 * TicksPerSec}

\* C25: a lookup for which no probe reports a keyframe returns exactly t,
\* after at most five window probes (10 s doubled up to the 300 s limit,
\* none after a window that started at 0) and one full scan.
KfUnsnappedFallback ==
    /\ k_probes <= Cardinality(KfWindows) + 1
    /\ k_pc = "window" =>
          /\ k_window \in KfWindows
          /\ k_probes < Cardinality(KfWindows)
          /\ k_probes > 0 => k_t - (k_window \div 2) > 0
    /\ (k_pc = "ret" /\ keyframe_cache[k_src].times = <<>>) => k_ret = k_t

\* C25 witness: a lookup of t = 400 s on a source that reports no keyframe
\* has returned t after five window probes and the full scan.
KfUnsnappedFallbackWitness ==
    /\ k_pc = "ret"
    /\ k_t = 400 * TicksPerSec
    /\ k_probes = 6
    /\ keyframe_cache[k_src].times = <<>>
    /\ keyframe_cache[k_src].full_scan
    /\ k_ret = k_t

\* C26: every cached list is strictly increasing; a timestamp cached stays
\* cached; a step that adds no new timestamp (a merge of known ones) leaves
\* the list as it is.
KfCacheSortedAppendOnly ==
    /\ [](\A src \in DOMAIN keyframe_cache :
             \A i, j \in DOMAIN keyframe_cache[src].times :
                i < j => keyframe_cache[src].times[i] < keyframe_cache[src].times[j])
    /\ [][\A src \in DOMAIN keyframe_cache :
             /\ src \in DOMAIN keyframe_cache'
             /\ Range(keyframe_cache[src].times) \subseteq Range(keyframe_cache'[src].times)
             /\ Range(keyframe_cache'[src].times) = Range(keyframe_cache[src].times)
                   => keyframe_cache'[src].times = keyframe_cache[src].times]_vars

\* C26 witness: merges have built a list of three timestamps for a source.
KfCacheSortedAppendOnlyWitness ==
    /\ k_pc = "merged"
    /\ Len(keyframe_cache[k_src].times) = 3
    /\ Range(keyframe_cache[k_src].times) = k_frames[k_src]

-----------------------------------------------------------------------------
\* ClipAlgorithmPicker, as autocreate_pmv_batch uses it: current() before a
\* job, commit() after a job that succeeded.

MaxSlots == 5
MaxRecycleDraws == 1
MaxCalls == 2

otherThanPick == <<allocVars, partVars, seqVars, kfVars, splitVars, guardVars, planVars, renderVars>>

\* `self.unique_index += 1` left out: the cursor stays where it is.
advance_stuck(i) == i

\* self.unique_index += 1
advance(i) == i + 1

\* random.sample(self.keys, len(self.keys)): every ordering of the keys.
sample_keys == Perms(CLIP_SEQUENCE_ALGORITHMS)

\* `if self._current is None` taken as always true.
NeedsDrawAlways(c) == TRUE

\* `if self._current is None`
NeedsDraw(c) == c = "None"

\* A pop that leaves the element in the list.
PopKeep(l) == <<l[Len(l)], l>>

\* list.pop(): <<the last element, the list without it>>.
PopEnd(l) == <<l[Len(l)], SubSeq(l, 1, Len(l) - 1)>>

\* ClipAlgorithmPicker(total_slots): the state the constructor leaves.
PickInit ==
    /\ \E arg \in 0..MaxSlots : total_slots = Max(1, arg)
    /\ unique_quota = Min(total_slots, Cardinality(CLIP_SEQUENCE_ALGORITHMS))
    /\ unique_deck \in sample_keys
    /\ unique_index = 0
    /\ recycle = <<>>
    /\ current = "None"
    /\ algo_key = "None"
    /\ committed = <<>>
    /\ draws = 0
    /\ calls = 0
    /\ pool_run = <<>>

\* _next_from_pool(): every outcome, as the key returned and the fields
\* assigned; an empty recycle list is refilled with a fresh sample first.
next_from_pool ==
    IF unique_index < unique_quota
    THEN {[key |-> unique_deck[unique_index + 1],
           unique_index |-> advance(unique_index),
           recycle |-> recycle]}
    ELSE {[key |-> PopEnd(r)[1],
           unique_index |-> unique_index,
           recycle |-> PopEnd(r)[2]] :
             r \in (IF recycle = <<>> THEN sample_keys ELSE {recycle})}

\* current(): draws a key when none is pending, returns the pending key;
\* at most pool_draws keys are taken from the recycle pool.
PickerCurrentUpTo(pool_draws) ==
    /\ calls < MaxCalls
    /\ IF NeedsDraw(current)
       THEN /\ draws < unique_quota + pool_draws
            /\ \E n \in next_from_pool :
                  /\ current' = n.key
                  /\ unique_index' = n.unique_index
                  /\ recycle' = n.recycle
                  /\ algo_key' = n.key
                  /\ pool_run' = IF unique_index < unique_quota THEN pool_run
                                 ELSE IF recycle = <<>> THEN <<n.key>>
                                 ELSE Append(pool_run, n.key)
            /\ draws' = draws + 1
       ELSE /\ algo_key' = current
            /\ UNCHANGED <<current, unique_index, recycle, draws, pool_run>>
    /\ calls' = calls + 1
    /\ UNCHANGED <<total_slots, unique_quota, unique_deck, committed>>
    /\ UNCHANGED otherThanPick

PickerCurrent == PickerCurrentUpTo(MaxRecycleDraws)

\* commit(): self._current = None.  `committed` records the key of a
\* committed request while fewer than unique_quota are recorded.
PickerCommit ==
    /\ current' = "None"
    /\ committed' = IF current # "None" /\ Len(committed) < unique_quota
                    THEN Append(committed, current)
                    ELSE committed
    /\ calls' = 0
    /\ UNCHANGED <<total_slots, unique_quota, unique_deck, unique_index, recycle,
                   algo_key, draws, pool_run>>
    /\ UNCHANGED otherThanPick

InitPick == AllocIdle /\ PartIdle /\ SeqIdle /\ KfIdle /\ PickInit /\ SplitIdle /\ GuardIdle /\ PlanIdle /\ RenderIdle

NextPick == PickerCurrent \/ PickerCommit

SpecPick == InitPick /\ [][NextPick]_vars

\* The picker followed into its recycling phase: few slots, so that the
\* quota is used up early, and up to MaxPoolDraws keys taken from the pool.
MaxPoolSlots == 2
MaxPoolDraws == 6

\* list(CLIP_SEQUENCE_ALGORITHMS.keys()): the keys in the order of the dict.
KeyList == <<"carousel", "waves", "bursts", "poi", "strata">>

\* The decks of the constructor followed here: the rotations of the key list.
PoolDecks ==
    {[i \in 1..Len(KeyList) |-> KeyList[((i + r - 1) % Len(KeyList)) + 1]] :
        r \in 0..(Len(KeyList) - 1)}

PoolInit ==
    /\ total_slots \in 1..MaxPoolSlots
    /\ unique_quota = Min(total_slots, Cardinality(CLIP_SEQUENCE_ALGORITHMS))
    /\ unique_deck \in PoolDecks
    /\ unique_index = 0
    /\ recycle = <<>>
    /\ current = "None"
    /\ algo_key = "None"
    /\ committed = <<>>
    /\ draws = 0
    /\ calls = 0
    /\ pool_run = <<>>

InitPool == AllocIdle /\ PartIdle /\ SeqIdle /\ KfIdle /\ PoolInit /\ SplitIdle /\ GuardIdle /\ PlanIdle /\ RenderIdle

NextPool == PickerCurrentUpTo(MaxPoolDraws) \/ PickerCommit

SpecPool == InitPool /\ [][NextPool]_vars

\* C9: the keys of the first quota = min(total_slots, k) committed requests
\* are pairwise distinct, for every shuffle.
PickFirstQuotaDistinct ==
    \A i, j \in DOMAIN committed : i # j => committed[i] # committed[j]

\* C9 witness: all k keys have been committed, with total_slots >= k.
PickFirstQuotaDistinctWitness ==
    /\ unique_quota = Cardinality(CLIP_SEQUENCE_ALGORITHMS)
    /\ Len(committed) = unique_quota
    /\ current = "None"

\* C10: a current() call with a key pending returns that key and takes nothing
\* from the deck or the recycle pool; a current() call with no key pending
\* takes exactly one key and returns it; commit() never touches the deck, the
\* cursor or the recycle pool, and with no key pending it changes nothing.
\* (A step with calls' = calls + 1 is a current() call, one with calls' = 0 a
\* commit().)
PickCurrentIdempotent ==
    [][/\ (calls' = calls + 1 /\ current # "None")
            => /\ algo_key' = current
               /\ UNCHANGED <<current, unique_deck, unique_index, recycle, draws>>
       /\ (calls' = calls + 1 /\ current = "None")
            => /\ algo_key' = current'
               /\ current' \in CLIP_SEQUENCE_ALGORITHMS
               /\ draws' = draws + 1
               /\ \/ unique_index' = unique_index + 1 /\ recycle' = recycle
                  \/ unique_index' = unique_index
                       /\ Len(recycle') = (IF recycle = <<>>
                                           THEN Cardinality(CLIP_SEQUENCE_ALGORITHMS)
                                           ELSE Len(recycle)) - 1
       /\ calls' = 0
            => /\ current' = "None"
               /\ UNCHANGED <<unique_deck, unique_index, recycle, unique_quota,
                              total_slots, algo_key, draws>>
       /\ (calls' = 0 /\ current = "None")
            => UNCHANGED <<current, unique_deck, unique_index, recycle,
                           unique_quota, total_slots, algo_key, draws, committed>>
      ]_vars

\* C10 witness: current() has been called twice with no commit() between and
\* the pending key is the key returned, taken from the recycle pool.
PickCurrentIdempotentWitness ==
    /\ calls = 2
    /\ current # "None"
    /\ algo_key = current
    /\ unique_index = unique_quota
    /\ draws = unique_quota + 1

\* The number k of keys.
KeyCount == Cardinality(CLIP_SEQUENCE_ALGORITHMS)

\* C27: once the quota is used up, the recycle pool is refilled only when it
\* is empty and with a permutation of all k keys, so the keys drawn since a
\* refill are pairwise distinct, are the keys missing from the pool, and
\* after k draws are all the k keys, the pool being empty again.
PickRecycleRuns ==
    /\ [](\A i, j \in DOMAIN pool_run : i # j => pool_run[i] # pool_run[j])
    /\ [](\A i, j \in DOMAIN recycle : i # j => recycle[i] # recycle[j])
    /\ [](pool_run # <<>> =>
             /\ Range(pool_run) \cap Range(recycle) = {}
             /\ Range(pool_run) \cup Range(recycle) = CLIP_SEQUENCE_ALGORITHMS)
    /\ [](Len(pool_run) = KeyCount =>
             (Range(pool_run) = CLIP_SEQUENCE_ALGORITHMS /\ recycle = <<>>))
    /\ [](unique_index < unique_quota => (recycle = <<>> /\ pool_run = <<>>))
    /\ [][recycle' # recycle =>
             /\ unique_index = unique_quota
             /\ IF recycle = <<>>
                THEN /\ Len(recycle') = KeyCount - 1
                     /\ Range(recycle') \cup {current'} = CLIP_SEQUENCE_ALGORITHMS
                     /\ pool_run' = <<current'>>
                ELSE /\ recycle' = SubSeq(recycle, 1, Len(recycle) - 1)
                     /\ current' = recycle[Len(recycle)]
                     /\ pool_run' = Append(pool_run, current')]_vars

\* C27 witness: the k keys of one refill have been drawn and committed, and
\* the first key of the next refill is pending.
PickRecycleRunsWitness ==
    /\ draws = unique_quota + KeyCount + 1
    /\ Len(pool_run) = 1
    /\ Len(recycle) = KeyCount - 1
    /\ current = pool_run[1]

-----------------------------------------------------------------------------
\* split_into_big_parts(file_len, parts)

MaxFileLen == 9
MaxParts   == 5

otherThanSplit == <<allocVars, partVars, seqVars, kfVars, pickVars, guardVars, planVars, renderVars>>

\* The remainder handed to a window that does not come first.
extra_inclusive(i, rem) == IF i <= rem THEN 1 ELSE 0

\* Line 3633: (1 if i < rem else 0), i counted from 0.
extra(i, rem) == IF i < rem THEN 1 ELSE 0

\* Lines 3632-3635: the iterations i, i + 1, ..., parts - 1 of the loop, with
\* `cur` as the iteration i finds it: the windows they append.
RECURSIVE SplitFrom(_, _, _, _, _)
SplitFrom(i, cur, base_len, rem, parts) ==
    IF i >= parts
    THEN <<>>
    ELSE LET L == base_len + extra(i, rem)
         IN  << <<cur, L>> >> \o SplitFrom(i + 1, cur + L, base_len, rem, parts)

split_into_big_parts(file_len, parts) ==
    LET n        == Max(1, parts)
        base_len == file_len \div n
        rem      == file_len - base_len * n
    IN  SplitFrom(0, 0, base_len, rem, n)

SplitInit ==
    /\ sp_pc = "start"
    /\ sp_args \in (0..MaxFileLen) \X (0..MaxParts)
    /\ sp_res = <<>>

SplitCall ==
    /\ sp_pc = "start"
    /\ sp_res' = split_into_big_parts(sp_args[1], sp_args[2])
    /\ sp_pc' = "done"
    /\ UNCHANGED sp_args
    /\ UNCHANGED otherThanSplit

InitSplit == AllocIdle /\ PartIdle /\ SeqIdle /\ KfIdle /\ PickIdle /\ SplitInit /\ GuardIdle /\ PlanIdle /\ RenderIdle

NextSplit == SplitCall

SpecSplit == InitSplit /\ [][NextSplit]_vars

\* C19: with n = max(1, parts) the function returns exactly n windows, the
\* first at 0 and each at the previous start plus length, whose lengths sum
\* to total; the first (total mod n) windows are floor(total / n) + 1 long,
\* the others floor(total / n).
SplitIsEvenAndContiguous ==
    sp_pc = "done" =>
        LET total == sp_args[1]
            n     == IF sp_args[2] >= 1 THEN sp_args[2] ELSE 1
        IN  /\ Len(sp_res) = n
            /\ sp_res[1][1] = 0
            /\ \A i \in 2..n : sp_res[i][1] = sp_res[i - 1][1] + sp_res[i - 1][2]
            /\ SumSeq([i \in 1..n |-> sp_res[i][2]]) = total
            /\ \A i \in 1..n :
                  sp_res[i][2] = (total \div n) + (IF i <= total % n THEN 1 ELSE 0)

\* C19 witness: a total that n > 1 does not divide has been split, so the
\* windows have two different lengths.
SplitIsEvenAndContiguousWitness ==
    /\ sp_pc = "done"
    /\ sp_args[2] = 3
    /\ sp_args[1] % 3 = 1
    /\ sp_args[1] > 3
    /\ sp_res[1][2] = sp_res[2][2] + 1
    /\ sp_res[3][1] > sp_res[2][1]

-----------------------------------------------------------------------------
\* _clip_guard_limits(duration), reading the module globals
\* CLIP_HEAD_GUARD_SECONDS and CLIP_TAIL_GUARD_SECONDS.

MaxDuration == 7
MaxGuard    == 2

otherThanGuard == <<allocVars, partVars, seqVars, kfVars, pickVars, splitVars, planVars, renderVars>>

\* The guard switched off only below head + tail.
guard_inactive_strict(duration, head, tail) == duration < head + tail

\* Line 3678: `if duration <= head + tail`.
guard_inactive(duration, head, tail) == duration <= head + tail

\* Lines 3676-3683 for the given values of the two globals.
GuardLimits(head_guard, tail_guard, duration) ==
    LET head == Max(0, head_guard)
        tail == Max(0, tail_guard)
    IN  IF guard_inactive(duration, head, tail)
        THEN <<FALSE, 0, duration>>
        ELSE LET guard_start == Min(head, duration)
                 guard_end   == Min(Max(guard_start + 1, duration - tail), duration)
             IN  <<TRUE, guard_start, guard_end>>

GuardInit ==
    /\ g_pc = "start"
    /\ g_head \in 0..MaxGuard
    /\ g_tail \in 0..MaxGuard
    /\ g_duration \in 0..MaxDuration
    /\ g_ret = <<FALSE, 0, 0>>

GuardCall ==
    /\ g_pc = "start"
    /\ g_ret' = GuardLimits(g_head, g_tail, g_duration)
    /\ g_pc' = "done"
    /\ UNCHANGED <<g_head, g_tail, g_duration>>
    /\ UNCHANGED otherThanGuard

InitGuard == AllocIdle /\ PartIdle /\ SeqIdle /\ KfIdle /\ PickIdle /\ SplitIdle /\ GuardInit /\ PlanIdle /\ RenderIdle

NextGuard == GuardCall

SpecGuard == InitGuard /\ [][NextGuard]_vars

\* C15: for duration >= 0 and guards head, tail >= 0 the result is
\* (inactive, 0, duration) when duration <= head + tail, and otherwise
\* (active, head, min(duration, max(head + 1, duration - tail))); an active
\* guard has 0 <= guard_start < guard_end <= duration.
GuardWindowShape ==
    g_pc = "done" =>
        IF g_duration <= g_head + g_tail
        THEN g_ret = <<FALSE, 0, g_duration>>
        ELSE /\ g_ret[1] = TRUE
             /\ g_ret[2] = g_head
             /\ g_ret[3] = (LET a == IF g_head + 1 >= g_duration - g_tail
                                      THEN g_head + 1 ELSE g_duration - g_tail
                            IN  IF g_duration <= a THEN g_duration ELSE a)
             /\ 0 <= g_ret[2]
             /\ g_ret[2] < g_ret[3]
             /\ g_ret[3] <= g_duration

\* C15 witness: an active guard with both guards positive, and so a window
\* strictly inside the source.
GuardWindowShapeWitness ==
    /\ g_pc = "done"
    /\ g_head > 0
    /\ g_tail > 0
    /\ g_ret[1] = TRUE
    /\ g_ret[2] > 0
    /\ g_ret[3] < g_duration

-----------------------------------------------------------------------------
\* plan_for_file and the Default Planner _plan_for_file_default, which calls
\* _clip_guard_limits, split_into_big_parts and, for each window,
\* jittered_partition (the partitioner's steps above, run as a call).
\*
\* The source's duration is int(ffprobe_duration_seconds(file_path)), in
\* whole seconds.

MIN_SMALL_CLIP_SECONDS  == 3
CLIP_HEAD_GUARD_SECONDS == 60
CLIP_TAIL_GUARD_SECONDS == 60

MaxPlanDur     == 7
MaxPlanAlloc   == 7
MaxBigParts    == 3
MaxSmallPerBig == 3

\* Sources long enough for windows of three clips with a jitter above one
\* second, and for an active guard (duration > head + tail).
LongDurations == {65, 125}

otherThanPlan == <<allocVars, seqVars, kfVars, pickVars, splitVars, guardVars, renderVars>>

\* The arguments of the call in progress.
pl_dur           == pl_args[1]
pl_file_alloc    == pl_args[2]
pl_big_parts     == pl_args[3]
pl_small_per_big == pl_args[4]

\* Line 3697: guard_active, guard_start, guard_end = _clip_guard_limits(dur)
clip_guard_limits(duration) ==
    GuardLimits(CLIP_HEAD_GUARD_SECONDS, CLIP_TAIL_GUARD_SECONDS, duration)

\* The window the loop is about to visit (lines 3704-3713): its start and
\* length after the guard is applied.
wstart     == pl_windows[pl_idx + 1][1]
wlen       == pl_windows[pl_idx + 1][2]
wstart_eff ==
    LET g == clip_guard_limits(pl_dur)
    IN  IF g[1] THEN Max(wstart, g[2]) ELSE wstart
wlen_eff ==
    LET g == clip_guard_limits(pl_dur)
    IN  IF g[1] THEN Max(0, Min(wstart + wlen, g[3]) - Max(wstart, g[2])) ELSE wlen

\* Lines 3700-3701 and 3714: the window's share of file_alloc.
window_share ==
    LET n        == Len(pl_windows)
        base_len == pl_file_alloc \div n
        rem      == pl_file_alloc - base_len * n
    IN  base_len + (IF pl_idx < rem THEN 1 ELSE 0)

\* Line 3714: alloc = min(wlen_eff, base + (1 if idx < rem else 0))
window_alloc == Min(wlen_eff, window_share)

\* Line 3718: spb = min(small_per_big, max(1, alloc // MIN_SMALL_CLIP_SECONDS))
spb == Min(pl_small_per_big, Max(1, window_alloc \div MIN_SMALL_CLIP_SECONDS))

\* Lines 3721-3733: the clips placed in the window for the lengths drawn,
\* from the length i on, with cur and extra_left as the iteration finds them.
RECURSIVE PlaceFrom(_, _, _, _, _)
PlaceFrom(lengths, i, cur, extra_left, base_gap) ==
    IF i > Len(lengths)
    THEN <<>>
    ELSE << <<cur, lengths[i]>> >>
         \o PlaceFrom(lengths, i + 1,
                      cur + lengths[i] + base_gap + (IF extra_left > 0 THEN 1 ELSE 0),
                      IF extra_left > 0 THEN extra_left - 1 ELSE extra_left,
                      base_gap)

PlaceClips(lengths) ==
    LET total_clips_len == SumSeq(lengths)
        slack           == Max(0, wlen_eff - total_clips_len)
        gaps            == spb + 1
        base_gap        == slack \div gaps
        extra_gap       == slack - base_gap * gaps
    IN  PlaceFrom(lengths, 1,
                  wstart_eff + base_gap + (IF extra_gap > 0 THEN 1 ELSE 0),
                  Max(0, extra_gap - 1),
                  base_gap)

\* Lines 3735-3740: when the clips total more than file_alloc the last clip
\* gives up the overflow, down to one second.
TrimLast(clips, file_alloc) ==
    LET total == SumSeq([i \in DOMAIN clips |-> clips[i][2]])
    IN  IF total > file_alloc /\ clips # <<>>
        THEN [clips EXCEPT ![Len(clips)] =
                 <<clips[Len(clips)][1], Max(1, clips[Len(clips)][2] - (total - file_alloc))>>]
        ELSE clips

\* Timestamps (whole seconds) the audio analysis can report samples at.
SampleTimes == {2, 6, 63}

\* `if clips:` taken for a test that any list passes.
TruthyAlways(clips) == TRUE

\* Line 3753, `if clips:`: Python's truth value of a list.
Truthy(clips) == clips # <<>>

\* The set S as a sorted list (points.sort(key=lambda x: x[0])).
RECURSIVE SortedSeqOf(_)
SortedSeqOf(S) ==
    IF S = {}
    THEN <<>>
    ELSE LET m == CHOOSE x \in S : \A y \in S : x <= y
         IN  <<m>> \o SortedSeqOf(S \ {m})

\* Lines 3846-3847: duration_seconds and file_alloc as plan_for_file_poi
\* clamps them.
poi_duration_seconds == Max(1, pl_dur)
poi_file_alloc       == Min(pl_file_alloc, poi_duration_seconds)

\* _select_audio_poi_points (lines 3810-3838): in every minute that has
\* samples the `want` loudest are kept, want = randint(1, 3) clamped to the
\* number of candidates; the amplitudes are free, so any `want` of them can
\* be the loudest.  The result is never empty when there are samples.
select_audio_poi_points(duration, samples) ==
    IF samples = {} \/ duration <= 0
    THEN {{}}
    ELSE LET minutes   == Max(1, (duration + 59) \div 60)
             minute(t) == Min(minutes - 1, t \div 60)
             cand(b)   == {t \in samples : minute(t) = b}
         IN  {S \in SUBSET samples :
                 \A b \in 0..(minutes - 1) :
                    cand(b) # {} =>
                       \E want \in 1..3 :
                          Cardinality(S \cap cand(b)) = Max(1, Min(want, Cardinality(cand(b))))}

\* Lines 3853-3856: at most max_points points are kept, the loudest ones.
poi_trim(points) ==
    LET max_points == Max(1, Min(Cardinality(points),
                                 Max(1, poi_file_alloc \div MIN_SMALL_CLIP_SECONDS)))
    IN  IF Cardinality(points) > max_points
        THEN {T \in SUBSET points : Cardinality(T) = max_points}
        ELSE {points}

\* Every poi_points plan_for_file_poi can work with (as sets of timestamps).
PoiPointChoices ==
    UNION {poi_trim(S) : S \in select_audio_poi_points(pl_dur, pl_samples)}

\* round(n2 / 2), Python's round half to even.
RoundHalfEven(n2) ==
    IF n2 % 2 = 0
    THEN n2 \div 2
    ELSE LET f == (n2 - 1) \div 2 IN IF f % 2 = 0 THEN f ELSE f + 1

\* The clips of a point with the clamping into the usable region left out.
PoiClipChoicesUnclamped(ts, clip_len) ==
    {<<Max(0, r), clip_len>> :
        r \in RoundHalfEven(2 * ts - clip_len - 4)..((2 * ts - clip_len + 4) \div 2)}

\* Lines 3865-3877: the clips one point at ts can get for the length
\* clip_len; jitter = random.uniform(-2, 2) is any real of [-2, 2).
PoiClipChoices(ts, clip_len) ==
    LET g == clip_guard_limits(poi_duration_seconds)
    IN  {LET start0 == Max(0, r) IN
         IF g[1]
         THEN LET safe_window == Max(1, g[3] - g[2])
                  len2        == Min(clip_len, safe_window)
                  max_start   == Max(g[2], g[3] - len2)
              IN  <<Max(g[2], Min(start0, max_start)), len2>>
         ELSE LET max_start == Max(0, poi_duration_seconds - clip_len)
              IN  <<(IF start0 > max_start THEN max_start ELSE start0), clip_len>>
         : r \in RoundHalfEven(2 * ts - clip_len - 4)..((2 * ts - clip_len + 4) \div 2)}

\* Lines 3864-3878: the clip lists the loop over zip(poi_points, lengths) can
\* build from the pair i on.
RECURSIVE PoiPlacements(_, _, _)
PoiPlacements(points, lengths, i) ==
    IF i > Min(Len(points), Len(lengths))
    THEN {<<>>}
    ELSE {<<c>> \o rest : c \in PoiClipChoices(points[i], lengths[i]),
                          rest \in PoiPlacements(points, lengths, i + 1)}

\* A source of 108 s given out whole to three windows of three clips: each
\* window's share is 36 s.
WholeSourceInput == <<108, 108, 3, 3>>

PlanInputs ==
    UNION {{<<d, a, b, c>> : a \in (0..MaxPlanAlloc) \cup {d},
                             b \in 1..MaxBigParts,
                             c \in 1..MaxSmallPerBig} :
              d \in (0..MaxPlanDur) \cup LongDurations}
    \cup {WholeSourceInput}

PlanInit ==
    /\ pl_pc = "entry"
    /\ pl_args \in PlanInputs
    /\ pl_algo \in {"carousel", "poi"}
    /\ pl_windows = <<>>
    /\ pl_idx = 0
    /\ pl_clips = <<>>
    /\ pl_ret = <<>>
    /\ pl_planner = "none"
    /\ pl_samples \in (IF pl_algo = "poi"
                        THEN SUBSET {t \in SampleTimes : t <= pl_args[1]}
                        ELSE {{}})
    /\ pl_points = <<>>
    /\ pl_poi = <<>>

\* Lines 3751-3755 for algo_key # "poi": plan_for_file goes straight to
\* _plan_for_file_default.
PlanEntryDefault ==
    /\ pl_pc = "entry"
    /\ pl_algo # "poi"
    /\ pl_pc' = "default"
    /\ UNCHANGED <<pl_args, pl_algo, pl_windows, pl_idx, pl_clips, pl_ret>>
    /\ UNCHANGED <<partVars, otherThanPlan>>
    /\ UNCHANGED <<pl_planner, poiVars>>

\* Lines 3693-3695: `if dur <= 0 or file_alloc <= 0: return []`.
PlanNothing ==
    /\ pl_pc = "default"
    /\ (pl_dur <= 0 \/ pl_file_alloc <= 0)
    /\ pl_ret' = <<>>
    /\ pl_planner' = "default"
    /\ pl_pc' = "done"
    /\ UNCHANGED <<pl_args, pl_algo, pl_windows, pl_idx, pl_clips>>
    /\ UNCHANGED <<partVars, otherThanPlan>>
    /\ UNCHANGED poiVars

\* Lines 3697-3703: the guard, the windows and the empty clip list.
PlanStart ==
    /\ pl_pc = "default"
    /\ pl_dur > 0
    /\ pl_file_alloc > 0
    /\ pl_windows' = split_into_big_parts(pl_dur, pl_big_parts)
    /\ pl_idx' = 0
    /\ pl_clips' = <<>>
    /\ pl_pc' = "loop"
    /\ UNCHANGED <<pl_args, pl_algo, pl_ret>>
    /\ UNCHANGED <<partVars, otherThanPlan>>
    /\ UNCHANGED <<pl_planner, poiVars>>

\* Lines 3704-3716: a window left without allocation is skipped.
PlanSkipWindow ==
    /\ pl_pc = "loop"
    /\ pl_idx < Len(pl_windows)
    /\ window_alloc <= 0
    /\ pl_idx' = pl_idx + 1
    /\ UNCHANGED <<pl_pc, pl_args, pl_algo, pl_windows, pl_clips, pl_ret>>
    /\ UNCHANGED <<partVars, otherThanPlan>>
    /\ UNCHANGED <<pl_planner, poiVars>>

\* Lines 3704-3719: the call jittered_partition(alloc, spb, min_each=3).
PlanCallPartition ==
    /\ pl_pc = "loop"
    /\ pl_idx < Len(pl_windows)
    /\ window_alloc > 0
    /\ p_pc' = "start"
    /\ p_args' = <<window_alloc, spb, MIN_SMALL_CLIP_SECONDS>>
    /\ pl_pc' = "call"
    /\ UNCHANGED <<total_len, count, min_each, lens, remain, left>>
    /\ UNCHANGED <<pl_args, pl_algo, pl_windows, pl_idx, pl_clips, pl_ret>>
    /\ UNCHANGED otherThanPlan
    /\ UNCHANGED <<pl_planner, poiVars>>

\* Lines 3719-3733: jittered_partition has returned `lengths`; the clips are
\* spread over the window and the loop moves on.
PlanPlace ==
    /\ pl_pc = "call"
    /\ p_pc = "done"
    /\ pl_clips' = pl_clips \o PlaceClips(lens)
    /\ pl_idx' = pl_idx + 1
    /\ pl_pc' = "loop"
    /\ p_pc' = "idle" /\ p_args' = <<0, 0, 0>> /\ total_len' = 0 /\ count' = 0
    /\ min_each' = 0 /\ lens' = <<>> /\ remain' = 0 /\ left' = 0
    /\ UNCHANGED <<pl_args, pl_algo, pl_windows, pl_ret>>
    /\ UNCHANGED otherThanPlan
    /\ UNCHANGED <<pl_planner, poiVars>>

\* Lines 3734-3741: sort by start, trim the last clip, return.
PlanFinish ==
    /\ pl_pc = "loop"
    /\ pl_idx = Len(pl_windows)
    /\ pl_clips' = SortByStart(pl_clips)
    /\ pl_ret' = TrimLast(SortByStart(pl_clips), pl_file_alloc)
    /\ pl_planner' = "default"
    /\ pl_pc' = "done"
    /\ UNCHANGED <<pl_args, pl_algo, pl_windows, pl_idx>>
    /\ UNCHANGED <<partVars, otherThanPlan>>
    /\ UNCHANGED poiVars

\* Lines 3751-3752: algo_key == "poi": clips = plan_for_file_poi(...).
PlanEntryPoi ==
    /\ pl_pc = "entry"
    /\ pl_algo = "poi"
    /\ pl_pc' = "poi"
    /\ UNCHANGED <<pl_args, pl_algo, pl_windows, pl_idx, pl_clips, pl_ret, pl_planner>>
    /\ UNCHANGED poiVars
    /\ UNCHANGED <<partVars, otherThanPlan>>

\* Lines 3842-3852: plan_for_file_poi returns [] for a duration or an
\* allocation <= 0 and when there is no point of interest.
PoiNothing ==
    /\ pl_pc = "poi"
    /\ \/ pl_dur <= 0
       \/ pl_file_alloc <= 0
       \/ poi_file_alloc <= 0
       \/ \E S \in select_audio_poi_points(pl_dur, pl_samples) : S = {}
    /\ pl_poi' = <<>>
    /\ pl_pc' = "poi_ret"
    /\ UNCHANGED <<pl_args, pl_algo, pl_windows, pl_idx, pl_clips, pl_ret, pl_planner>>
    /\ UNCHANGED <<pl_samples, pl_points>>
    /\ UNCHANGED <<partVars, otherThanPlan>>

\* Lines 3849-3861: the points are selected and trimmed, and
\* jittered_partition(file_alloc, len(poi_points), min_each=per_clip_min) is
\* called.
PoiCallPartition ==
    /\ pl_pc = "poi"
    /\ pl_dur > 0
    /\ pl_file_alloc > 0
    /\ poi_file_alloc > 0
    /\ \E S \in PoiPointChoices :
          /\ S # {}
          /\ pl_points' = SortedSeqOf(S)
          /\ p_args' = <<poi_file_alloc, Cardinality(S),
                         Min(MIN_SMALL_CLIP_SECONDS,
                             Max(1, poi_file_alloc \div Cardinality(S)))>>
    /\ p_pc' = "start"
    /\ pl_pc' = "poi_call"
    /\ UNCHANGED <<total_len, count, min_each, lens, remain, left>>
    /\ UNCHANGED <<pl_args, pl_algo, pl_windows, pl_idx, pl_clips, pl_ret, pl_planner>>
    /\ UNCHANGED <<pl_samples, pl_poi>>
    /\ UNCHANGED otherThanPlan

\* Lines 3861-3880: jittered_partition has returned `lengths`; every point
\* gets its clip, and the clips are sorted by start and returned.
PoiPlace ==
    /\ pl_pc = "poi_call"
    /\ p_pc = "done"
    /\ \E placed \in PoiPlacements(pl_points, lens, 1) : pl_poi' = SortByStart(placed)
    /\ pl_pc' = "poi_ret"
    /\ p_pc' = "idle" /\ p_args' = <<0, 0, 0>> /\ total_len' = 0 /\ count' = 0
    /\ min_each' = 0 /\ lens' = <<>> /\ remain' = 0 /\ left' = 0
    /\ UNCHANGED <<pl_args, pl_algo, pl_windows, pl_idx, pl_clips, pl_ret, pl_planner>>
    /\ UNCHANGED <<pl_samples, pl_points>>
    /\ UNCHANGED otherThanPlan

\* Lines 3753-3754: `if clips: return clips`.
PlanReturnPoi ==
    /\ pl_pc = "poi_ret"
    /\ Truthy(pl_poi)
    /\ pl_ret' = pl_poi
    /\ pl_planner' = "poi"
    /\ pl_pc' = "done"
    /\ UNCHANGED <<pl_args, pl_algo, pl_windows, pl_idx, pl_clips>>
    /\ UNCHANGED poiVars
    /\ UNCHANGED <<partVars, otherThanPlan>>

\* Lines 3753-3755: the POI planner gave no clip: plan_for_file goes on to
\* _plan_for_file_default with the same arguments.
PlanFallback ==
    /\ pl_pc = "poi_ret"
    /\ ~Truthy(pl_poi)
    /\ pl_pc' = "default"
    /\ UNCHANGED <<pl_args, pl_algo, pl_windows, pl_idx, pl_clips, pl_ret, pl_planner>>
    /\ UNCHANGED poiVars
    /\ UNCHANGED <<partVars, otherThanPlan>>

InitPlan == AllocIdle /\ PartIdle /\ SeqIdle /\ KfIdle /\ PickIdle /\ SplitIdle /\ GuardIdle /\ PlanInit /\ RenderIdle

NextPlan ==
    \/ PlanEntryDefault
    \/ PlanEntryPoi
    \/ PoiNothing
    \/ PoiCallPartition
    \/ PoiPlace
    \/ PlanReturnPoi
    \/ PlanFallback
    \/ PlanNothing
    \/ PlanStart
    \/ PlanSkipWindow
    \/ PlanCallPartition
    \/ PartStart
    \/ PartDraw
    \/ PartReturn
    \/ PlanPlace
    \/ PlanFinish

SpecPlan == InitPlan /\ [][NextPlan]_vars

\* C16: for duration > 0 and allocated > 0 every clip the Default Planner
\* returns lasts at least MIN_SMALL_CLIP_SECONDS.
PlanClipsAtLeastMin ==
    (pl_pc = "done" /\ pl_planner = "default" /\ pl_dur > 0 /\ pl_file_alloc > 0) =>
        \A i \in DOMAIN pl_ret : pl_ret[i][2] >= MIN_SMALL_CLIP_SECONDS

\* C17: for an allocation <= the duration every clip the Default Planner
\* returns has start >= 0, duration >= 1 and start + duration <= the
\* source's duration.
PlanClipsInsideSource ==
    (pl_pc = "done" /\ pl_planner = "default" /\ pl_file_alloc <= pl_dur) =>
        \A i \in DOMAIN pl_ret :
            /\ pl_ret[i][1] >= 0
            /\ pl_ret[i][2] >= 1
            /\ pl_ret[i][1] + pl_ret[i][2] <= pl_dur

\* plan_for_file_poi has returned to plan_for_file.
PoiReturned == pl_algo = "poi" /\ pl_pc \in {"poi_ret", "default", "loop", "call", "done"}

\* C14: with the POI planner selected, plan_for_file_poi returns the empty
\* list when there are no samples, and whenever it returns no clips the
\* result of plan_for_file is the list _plan_for_file_default builds for the
\* same source, allocation and parameters.
PoiFallsBackToDefault ==
    /\ (PoiReturned /\ pl_samples = {}) => pl_poi = <<>>
    /\ (pl_pc = "done" /\ pl_algo = "poi" /\ pl_poi = <<>>) =>
          /\ pl_planner = "default"
          /\ IF pl_dur <= 0 \/ pl_file_alloc <= 0
             THEN pl_ret = <<>>
             ELSE /\ pl_windows = split_into_big_parts(pl_dur, pl_big_parts)
                  /\ pl_idx = Len(pl_windows)
                  /\ pl_ret = TrimLast(pl_clips, pl_file_alloc)

\* C14 witness: the POI planner found no sample in a source that has
\* duration and allocation, and plan_for_file has returned clips.
PoiFallsBackToDefaultWitness ==
    /\ pl_pc = "done"
    /\ pl_algo = "poi"
    /\ pl_samples = {}
    /\ pl_poi = <<>>
    /\ pl_dur > 0
    /\ pl_file_alloc > 0
    /\ Len(pl_ret) >= 2

-----------------------------------------------------------------------------
\* The Render Orchestrator make_pmv_from_files.  It calls allocate_equalish
\* and the sequencing algorithm chosen (the steps of those components above,
\* run as calls).  plan_for_file returns, for each source, one of a few clip
\* lists; get_prev_keyframe_time only changes the start handed to
\* extract_clip and never raises.  The sources come from the sources table
\* (lines 5375-5376), so db_get_source_id_by_path finds them.

PER_FILE_MAX_SECONDS == 600

MaxSelected  == 2
MaxProbeDur  == 4
MaxRequested == 5

otherThanRender == <<partVars, kfVars, pickVars, splitVars, guardVars, planVars>>

\* What a selected source can be: missing, not probeable, or probed with d.
SourceStates ==
    {[exists |-> FALSE, probe_ok |-> TRUE, d |-> 1],
     [exists |-> TRUE, probe_ok |-> FALSE, d |-> 0]}
    \cup {[exists |-> TRUE, probe_ok |-> TRUE, d |-> d] : d \in 0..MaxProbeDur}

\* The clip lists plan_for_file returns for a source here: none, or one clip.
PlannedLists == {<<>>, << <<0, 1>> >>}

\* A validity test that lets a duration of 0 pass.
duration_ok_or_zero(d) == d >= 0

\* Line 5086: `if d > 0`.
duration_ok(d) == d > 0

\* Lines 5075-5104: the reason the validation flags the source with, "ok"
\* for a source it keeps.
Verdict(src) ==
    IF ~src.exists THEN "missing_file"
    ELSE IF ~src.probe_ok THEN "probe_error"
    ELSE IF duration_ok(src.d) THEN "ok"
    ELSE "zero_duration"

\* A failed clip that ends the loop.
skip_rest(k) == Len(sequence)

\* Line 5253, `continue`: the loop goes on with the next clip.
next_clip(k) == k + 1

\* A cleanup that leaves the directory in place.
rmtree_skipped(dir) == dir

\* Line 5273: shutil.rmtree(tmp_root, ignore_errors=True).
rmtree(dir) == "removed"

RenderInit ==
    /\ r_pc = "start"
    /\ selected_paths \in UNION {[1..n -> SourceStates] : n \in 0..MaxSelected}
    /\ target_seconds \in 0..MaxRequested
    /\ r_i = 0
    /\ valid_paths = <<>>
    /\ r_flags = [p \in DOMAIN selected_paths |-> <<>>]
    /\ effective_target = 0
    /\ per_file_alloc = <<>>
    /\ per_file_clips = <<>>
    /\ sequence = <<>>
    /\ tmp_root = "none"
    /\ r_k = 0
    /\ clips_paths = <<>>
    /\ r_attempts = <<>>
    /\ r_failed = {}
    /\ r_concat = FALSE
    /\ r_error = "none"

\* Lines 5063-5064: `if not selected_paths: raise ValueError`.
RenderNoFiles ==
    /\ r_pc = "start"
    /\ selected_paths = <<>>
    /\ r_error' = "no_files"
    /\ r_pc' = "raised"
    /\ UNCHANGED <<selected_paths, target_seconds, r_i, valid_paths, r_flags,
                   effective_target, per_file_alloc, per_file_clips, sequence, tmp_root,
                   r_k, clips_paths, r_attempts, r_failed, r_concat>>
    /\ UNCHANGED <<allocVars, seqVars, otherThanRender>>

\* Lines 5066-5073: the seed, durations = {}, valid_paths = [].
RenderEnter ==
    /\ r_pc = "start"
    /\ selected_paths # <<>>
    /\ r_pc' = "validate"
    /\ UNCHANGED <<selected_paths, target_seconds, r_i, valid_paths, r_flags,
                   effective_target, per_file_alloc, per_file_clips, sequence, tmp_root,
                   r_k, clips_paths, r_attempts, r_failed, r_concat, r_error>>
    /\ UNCHANGED <<allocVars, seqVars, otherThanRender>>

\* Lines 5074-5104: one iteration of `for p in selected_paths`.
RenderValidate ==
    /\ r_pc = "validate"
    /\ r_i < Len(selected_paths)
    /\ LET p == r_i + 1
           v == Verdict(selected_paths[p])
       IN  IF v = "ok"
           THEN /\ valid_paths' = Append(valid_paths, p)
                /\ UNCHANGED r_flags
           ELSE /\ r_flags' = [r_flags EXCEPT ![p] = Append(@, v)]
                /\ UNCHANGED valid_paths
    /\ r_i' = r_i + 1
    /\ UNCHANGED <<r_pc, selected_paths, target_seconds,
                   effective_target, per_file_alloc, per_file_clips, sequence, tmp_root,
                   r_k, clips_paths, r_attempts, r_failed, r_concat, r_error>>
    /\ UNCHANGED <<allocVars, seqVars, otherThanRender>>

\* Lines 5106-5112: selected_paths = valid_paths, sum_dur, effective_target
\* and `if effective_target <= 0: raise RuntimeError`.
RenderTarget ==
    /\ r_pc = "validate"
    /\ r_i = Len(selected_paths)
    /\ LET sum_dur == SumSeq([i \in DOMAIN valid_paths |-> selected_paths[valid_paths[i]].d])
           eff     == Min(target_seconds, sum_dur)
       IN  /\ effective_target' = eff
           /\ IF eff <= 0
              THEN r_error' = "zero_target" /\ r_pc' = "raised"
              ELSE r_error' = r_error /\ r_pc' = "space"
    /\ UNCHANGED <<selected_paths, target_seconds, r_i, valid_paths, r_flags,
                   per_file_alloc, per_file_clips, sequence, tmp_root,
                   r_k, clips_paths, r_attempts, r_failed, r_concat>>
    /\ UNCHANGED <<allocVars, seqVars, otherThanRender>>

\* Lines 5114-5126: the estimate exceeds MAX_OUTPUT_BYTES, or the output
\* folder has too little free space: RuntimeError.
RenderNoSpace ==
    /\ r_pc = "space"
    /\ \E reason \in {"too_big", "no_space"} : r_error' = reason
    /\ r_pc' = "raised"
    /\ UNCHANGED <<selected_paths, target_seconds, r_i, valid_paths, r_flags,
                   effective_target, per_file_alloc, per_file_clips, sequence, tmp_root,
                   r_k, clips_paths, r_attempts, r_failed, r_concat>>
    /\ UNCHANGED <<allocVars, seqVars, otherThanRender>>

\* Lines 5114-5128: both checks pass; allocate_equalish(effective_target,
\* selected_paths, durations) is called with per_max at its default.
RenderCallAllocate ==
    /\ r_pc = "space"
    /\ a_pc' = "start"
    /\ files' = Len(valid_paths)
    /\ durations' = [i \in DOMAIN valid_paths |-> selected_paths[valid_paths[i]].d]
    /\ target_sec' = effective_target
    /\ per_max' = PER_FILE_MAX_SECONDS
    /\ r_pc' = "alloc"
    /\ UNCHANGED <<alloc, leftover, progressed, order_i>>
    /\ UNCHANGED <<selected_paths, target_seconds, r_i, valid_paths, r_flags,
                   effective_target, per_file_alloc, per_file_clips, sequence, tmp_root,
                   r_k, clips_paths, r_attempts, r_failed, r_concat, r_error>>
    /\ UNCHANGED <<seqVars, otherThanRender>>

\* Lines 5128-5137: allocate_equalish has returned; every source with an
\* allocation > 0 is planned, and the builder of the algorithm resolved is
\* called on per_file_clips.
RenderPlan ==
    /\ r_pc = "alloc"
    /\ a_pc = "done"
    /\ per_file_alloc' = alloc
    /\ LET planned == SelectSeq([i \in DOMAIN valid_paths |-> i], LAMBDA i : alloc[i] > 0)
       IN  \E lists \in [1..Len(planned) -> PlannedLists] :
              /\ per_file_clips' = [j \in 1..Len(planned) |->
                                       <<valid_paths[planned[j]], lists[j]>>]
              /\ per_file' = [j \in 1..Len(planned) |-> lists[j]]
    /\ s_algo' \in CLIP_SEQUENCE_ALGORITHMS
    /\ s_pc' = "start"
    /\ r_pc' = "sequence"
    /\ a_pc' = "idle" /\ files' = 0 /\ target_sec' = 0 /\ durations' = <<>>
    /\ per_max' = 0 /\ alloc' = <<>> /\ leftover' = 0 /\ progressed' = FALSE
    /\ order_i' = 0
    /\ UNCHANGED <<queues, s_files, s_idx, out, s_iters>>
    /\ UNCHANGED <<selected_paths, target_seconds, r_i, valid_paths, r_flags,
                   effective_target, sequence, tmp_root,
                   r_k, clips_paths, r_attempts, r_failed, r_concat, r_error>>
    /\ UNCHANGED otherThanRender

\* Lines 5137-5139: the builder has returned `sequence`; an empty one is a
\* RuntimeError.
RenderSequenced ==
    /\ r_pc = "sequence"
    /\ s_pc = "done"
    /\ sequence' = [k \in DOMAIN out |-> <<per_file_clips[out[k][1]][1], out[k][2], out[k][3]>>]
    /\ IF out = <<>>
       THEN r_error' = "empty_sequence" /\ r_pc' = "raised"
       ELSE r_error' = r_error /\ r_pc' = "mktemp"
    /\ s_pc' = "idle" /\ s_algo' = "none" /\ per_file' = <<>> /\ queues' = <<>>
    /\ s_files' = <<>> /\ s_idx' = 0 /\ out' = <<>> /\ s_iters' = 0
    /\ UNCHANGED <<selected_paths, target_seconds, r_i, valid_paths, r_flags,
                   effective_target, per_file_alloc, per_file_clips, tmp_root,
                   r_k, clips_paths, r_attempts, r_failed, r_concat>>
    /\ UNCHANGED <<allocVars, otherThanRender>>

\* Lines 5143-5144: pick_temp_dir or tempfile.mkdtemp raises: there is no
\* directory.
RenderNoTempDir ==
    /\ r_pc = "mktemp"
    /\ r_error' = "no_temp_dir"
    /\ r_pc' = "raised"
    /\ UNCHANGED <<selected_paths, target_seconds, r_i, valid_paths, r_flags,
                   effective_target, per_file_alloc, per_file_clips, sequence, tmp_root,
                   r_k, clips_paths, r_attempts, r_failed, r_concat>>
    /\ UNCHANGED <<allocVars, seqVars, otherThanRender>>

\* Lines 5143-5145 and 5233-5234: tmp_root is created, clips_paths = [], and
\* the `try` block is entered.
RenderMkdtemp ==
    /\ r_pc = "mktemp"
    /\ tmp_root' = "exists"
    /\ clips_paths' = <<>>
    /\ r_k' = 0
    /\ r_pc' = "extract"
    /\ UNCHANGED <<selected_paths, target_seconds, r_i, valid_paths, r_flags,
                   effective_target, per_file_alloc, per_file_clips, sequence,
                   r_attempts, r_failed, r_concat, r_error>>
    /\ UNCHANGED <<allocVars, seqVars, otherThanRender>>

\* Lines 5235-5253: one iteration of `for idx, (src, start, dur)`:
\* extract_clip returns, or raises and the source is flagged.
RenderExtract ==
    /\ r_pc = "extract"
    /\ r_k < Len(sequence)
    /\ LET idx == r_k + 1
           src == sequence[idx][1]
       IN  /\ r_attempts' = Append(r_attempts, idx)
           /\ \/ /\ clips_paths' = Append(clips_paths, idx)
                 /\ r_k' = r_k + 1
                 /\ UNCHANGED <<r_flags, r_failed>>
              \/ /\ r_flags' = [r_flags EXCEPT ![src] = Append(@, "extract_error")]
                 /\ r_failed' = r_failed \cup {idx}
                 /\ r_k' = next_clip(r_k)
                 /\ UNCHANGED clips_paths
    /\ UNCHANGED <<r_pc, selected_paths, target_seconds, r_i, valid_paths,
                   effective_target, per_file_alloc, per_file_clips, sequence, tmp_root,
                   r_concat, r_error>>
    /\ UNCHANGED <<allocVars, seqVars, otherThanRender>>

\* Lines 5255-5256: `if not clips_paths: raise RuntimeError`.
RenderNoClips ==
    /\ r_pc = "extract"
    /\ r_k = Len(sequence)
    /\ clips_paths = <<>>
    /\ r_error' = "no_clips"
    /\ r_pc' = "finally"
    /\ UNCHANGED <<selected_paths, target_seconds, r_i, valid_paths, r_flags,
                   effective_target, per_file_alloc, per_file_clips, sequence, tmp_root,
                   r_k, clips_paths, r_attempts, r_failed, r_concat>>
    /\ UNCHANGED <<allocVars, seqVars, otherThanRender>>

\* Lines 5258-5270: concat_via_list(clips_paths, out_path) returns and the
\* function is about to return out_path, or it raises.
RenderConcat ==
    /\ r_pc = "extract"
    /\ r_k = Len(sequence)
    /\ clips_paths # <<>>
    /\ r_concat' = TRUE
    /\ \E failure \in {"none", "concat_error"} : r_error' = failure
    /\ r_pc' = "finally"
    /\ UNCHANGED <<selected_paths, target_seconds, r_i, valid_paths, r_flags,
                   effective_target, per_file_alloc, per_file_clips, sequence, tmp_root,
                   r_k, clips_paths, r_attempts, r_failed>>
    /\ UNCHANGED <<allocVars, seqVars, otherThanRender>>

\* Lines 5271-5273: the `finally` block, then the return or the exception
\* leaves the function.
RenderFinally ==
    /\ r_pc = "finally"
    /\ tmp_root' = rmtree(tmp_root)
    /\ r_pc' = IF r_error = "none" THEN "returned" ELSE "raised"
    /\ UNCHANGED <<selected_paths, target_seconds, r_i, valid_paths, r_flags,
                   effective_target, per_file_alloc, per_file_clips, sequence,
                   r_k, clips_paths, r_attempts, r_failed, r_concat, r_error>>
    /\ UNCHANGED <<allocVars, seqVars, otherThanRender>>

InitRender == AllocIdle /\ PartIdle /\ SeqIdle /\ KfIdle /\ PickIdle /\ SplitIdle /\ GuardIdle /\ PlanIdle /\ RenderInit

NextRender ==
    \/ RenderNoFiles
    \/ RenderEnter
    \/ RenderValidate
    \/ RenderTarget
    \/ RenderNoSpace
    \/ RenderCallAllocate
    \/ AllocStart
    \/ AllocVisit
    \/ AllocPassEnd
    \/ RenderPlan
    \/ SeqCarousel
    \/ CarouselPass
    \/ CarouselFinish
    \/ SeqPoi
    \/ SeqStrata
    \/ WavesShuffle
    \/ WavesGroup
    \/ WavesFinish
    \/ BurstStart
    \/ BurstStep
    \/ BurstFinish
    \/ RenderSequenced
    \/ RenderNoTempDir
    \/ RenderMkdtemp
    \/ RenderExtract
    \/ RenderNoClips
    \/ RenderConcat
    \/ RenderFinally

SpecRender == InitRender /\ [][NextRender]_vars

\* make_pmv_from_files has returned or raised.
RenderOver == r_pc \in {"returned", "raised"}

\* C11: once the job's temporary directory has been created it is removed
\* before make_pmv_from_files returns or raises: on success, when no clip was
\* extracted and when the concatenation fails.
RenderRemovesTempDir ==
    /\ RenderOver => tmp_root # "exists"
    /\ (RenderOver /\ r_error \in {"none", "no_clips", "concat_error"}) => tmp_root = "removed"

\* C11 witness: the concatenation has failed and the job has raised.
RenderRemovesTempDirWitness ==
    /\ r_pc = "raised"
    /\ r_error = "concat_error"
    /\ r_concat
    /\ tmp_root = "removed"

\* The extraction loop has been left.
ExtractionOver == tmp_root # "none" /\ r_pc \in {"finally", "returned", "raised"}

Dropped(p) ==
    \/ ~selected_paths[p].exists
    \/ ~selected_paths[p].probe_ok
    \/ selected_paths[p].d = 0

\* The reason such a source is to be flagged with.
DropReason(p) ==
    IF ~selected_paths[p].exists THEN "missing_file"
    ELSE IF ~selected_paths[p].probe_ok THEN "probe_error"
    ELSE "zero_duration"

\* min(requested target, sum of the durations of the valid sources).
ValidTarget ==
    LET sum == SumSeq([p \in DOMAIN selected_paths |->
                         IF Dropped(p) THEN 0 ELSE selected_paths[p].d])
    IN  IF target_seconds <= sum THEN target_seconds ELSE sum

PoiClipsInsideUsable ==
    PoiReturned =>
        LET g == GuardLimits(CLIP_HEAD_GUARD_SECONDS, CLIP_TAIL_GUARD_SECONDS, pl_dur)
        IN  \A i \in DOMAIN pl_poi :
               /\ pl_poi[i][2] >= 1
               /\ IF g[1]
                  THEN g[2] <= pl_poi[i][1] /\ pl_poi[i][1] + pl_poi[i][2] <= g[3]
                  ELSE 0 <= pl_poi[i][1] /\ pl_poi[i][1] + pl_poi[i][2] <= pl_dur

\* C28 witness: in a source of 125 s, guarded to [60, 65], the planner has
\* returned two clips, one pulled up to the start of the guard window and one
\* that ends with it.
PoiClipsInsideUsableWitness ==
    /\ pl_pc = "done"
    /\ pl_planner = "poi"
    /\ pl_dur = 125
    /\ Len(pl_ret) = 2
    /\ pl_ret = pl_poi
    /\ pl_ret[1][1] = 60
    /\ pl_ret[2][1] + pl_ret[2][2] = 65
    /\ pl_ret[2][1] > 60

\* C29: the clips the Default Planner returns are sorted by start time and
\* their durations sum to at most the allocation of the source.
PlanSortedWithinAlloc ==
    (pl_pc = "done" /\ pl_planner = "default") =>
        /\ \A i, j \in DOMAIN pl_ret : i < j => pl_ret[i][1] <= pl_ret[j][1]
        /\ SumSeq([i \in DOMAIN pl_ret |-> pl_ret[i][2]]) <= Max(0, pl_file_alloc)

\* C30: the clips the Default Planner returns for one source (allocation <=
\* duration) do not overlap: start[i] + duration[i] <= start[i+1] for all
\* consecutive clips.
PlanClipsDisjoint ==
    (pl_pc = "done" /\ pl_planner = "default" /\ pl_file_alloc <= pl_dur) =>
        \A i \in DOMAIN pl_ret :
            i < Len(pl_ret) => pl_ret[i][1] + pl_ret[i][2] <= pl_ret[i + 1][1]

=============================================================================
